---- MODULE Spec2Model ----
(***************************************************************************)
(* Azul synchronization engine: the in-memory tree (TreeManager), its      *)
(* projection onto disk (FileWriter) and the sourcemap built from both     *)
(* (SourcemapGenerator.generate).                                          *)
(*                                                                         *)
(* Strings are modelled as tuples of one-character strings, so that        *)
(* path.join, sanitizeName, guid.slice and pathKey are computed and not    *)
(* assumed.  A TreeNode object is identified by its guid; `parent' and the *)
(* members of `children' and of the path-index buckets are guids.          *)
(***************************************************************************)
EXTENDS Integers, Sequences, FiniteSets, TLC

VARIABLES
  nodes,        \* TreeManager.nodes : guid -> TreeNode
  nodeOrder,    \* insertion order of the keys of TreeManager.nodes (a JS Map)
  pathIndex,    \* TreeManager.pathIndex : pathKey -> set of nodes
  root,         \* TreeManager.root : Null or the guid of the synthetic root
  fileMappings, \* FileWriter.fileMappings : guid -> FileMapping
  mappingOrder, \* insertion order of the keys of FileWriter.fileMappings
  files,        \* the files on disk : file path -> contents
  dirs,         \* the directories on disk
  sourcemap,    \* the contents of sourcemap.json, Null before it is written
  config,       \* the loaded configuration (fields the claims speak of)
  hung,         \* TRUE once a handler has entered a loop it never leaves
  pack,         \* PackCommand: the snapshot wait and what run() did after it
  watcher,      \* the file watcher: expected writes, debounce timers, messages
  steps,        \* number of handled calls (bounds the exploration)
  last          \* the last call handled and what it returned (history)

treeVars == <<nodes, nodeOrder, pathIndex, root>>
fsVars == <<fileMappings, mappingOrder, files, dirs>>
vars == <<nodes, nodeOrder, pathIndex, root, fileMappings, mappingOrder, files, dirs,
          sourcemap, config, pack, watcher, hung, steps, last>>

-----------------------------------------------------------------------------
(* Bounds of the exploration *)

MaxGuid == 3
NumNames == 2
MaxDepth == 2
MaxSteps == 3

-----------------------------------------------------------------------------
(* Values *)

\* PackCommand before run() is called
PackIdle == [pc |-> "idle"]
\* the watcher before it has seen an event
WatcherIdle == [expected |-> {}, timers |-> {}, sent |-> <<>>]

Undef == <<"undefined">>
Null == <<"null">>
EmptyString == <<>>
RootGuid == <<"r", "o", "o", "t">>

\* JavaScript truthiness of a string | null | undefined value
Truthy(v) == v # Undef /\ v # Null /\ v # EmptyString

PrefixChar == <<"a", "b", "b", "c", "c">>
SuffixChar == <<"1", "1", "2", "1", "2">>
\* guids are hex strings; guids 2 and 3 (4 and 5) agree on their first 8 characters
Guid(i) == <<PrefixChar[i], "0", "0", "0", "0", "0", "0", "0", SuffixChar[i]>>
Guids == {Guid(i) : i \in 1..MaxGuid}

NameList == << <<"A">>, <<":">>, <<"_">>, <<"B">> >>
Names == {NameList[i] : i \in 1..NumNames}

RECURSIVE PathsOfLen(_)
PathsOfLen(n) ==
  IF n = 0 THEN {<<>>}
  ELSE {Append(p, s) : p \in PathsOfLen(n - 1), s \in Names}
Paths == UNION {PathsOfLen(n) : n \in 1..MaxDepth}

Last(s) == s[Len(s)]
Front(s) == SubSeq(s, 1, Len(s) - 1)

RECURSIVE SetToSeq(_)
SetToSeq(S) ==
  IF S = {} THEN <<>>
  ELSE LET x == CHOOSE y \in S : TRUE IN <<x>> \o SetToSeq(S \ {x})

SeqRemove(s, x) == SelectSeq(s, LAMBDA y : y # x)

\* a JS Map: set() of a new key appends it to the iteration order
MapOrderSet(order, k) ==
  IF \E i \in 1..Len(order) : order[i] = k THEN order ELSE Append(order, k)

-----------------------------------------------------------------------------
(* TreeManager *)

TreeState == [nodes |-> nodes, nodeOrder |-> nodeOrder,
              pathIndex |-> pathIndex, root |-> root]

EmptyTree == [nodes |-> <<>>, nodeOrder |-> <<>>, pathIndex |-> <<>>, root |-> Null]

Has(T, g) == g \in DOMAIN T.nodes

\* path.join("\u0000")
RECURSIVE pathKey(_)
pathKey(path) ==
  IF Len(path) = 0 THEN <<>>
  ELSE IF Len(path) = 1 THEN path[1]
  ELSE path[1] \o <<"NUL">> \o pathKey(Tail(path))

pathsEqual(a, b) ==
  IF Len(a) # Len(b) THEN FALSE
  ELSE \A idx \in 1..Len(a) : a[idx] = b[idx]

isScriptNode(className) ==
  \/ className = "Script"
  \/ className = "LocalScript"
  \/ className = "ModuleScript"

SetNode(T, g, n) ==
  [T EXCEPT !.nodes = [k \in DOMAIN T.nodes \cup {g} |->
                          IF k = g THEN n ELSE T.nodes[k]],
            !.nodeOrder = MapOrderSet(T.nodeOrder, g)]

addToPathIndex(T, g) ==
  LET key == pathKey(T.nodes[g].path)
      bucket == IF key \in DOMAIN T.pathIndex THEN T.pathIndex[key] ELSE {}
  IN [T EXCEPT !.pathIndex =
        [k \in DOMAIN T.pathIndex \cup {key} |->
           IF k = key THEN bucket \cup {g} ELSE T.pathIndex[k]]]

removeFromPathIndex(T, g, path) ==
  LET key == pathKey(path) IN
  IF key \notin DOMAIN T.pathIndex THEN T
  ELSE LET bucket == T.pathIndex[key] \ {g} IN
       IF bucket = {}
       THEN [T EXCEPT !.pathIndex =
               [k \in DOMAIN T.pathIndex \ {key} |-> T.pathIndex[k]]]
       ELSE [T EXCEPT !.pathIndex[key] = bucket]

\* the nodes a traversal of the children maps visits from g (g included)
RECURSIVE ReachFrom(_, _, _)
ReachFrom(T, frontier, seen) ==
  IF frontier = {} THEN seen
  ELSE LET next == UNION {T.nodes[f].children : f \in frontier} \ seen
       IN ReachFrom(T, next, seen \cup next)
Subtree(T, g) == ReachFrom(T, {g}, {g})

\* a traversal from g that keeps no visited set never ends
LoopsFrom(T, g) ==
  \E d \in Subtree(T, g) :
     d \in ReachFrom(T, T.nodes[d].children, T.nodes[d].children)

RECURSIVE registerAll(_, _)
registerAll(T, S) ==
  IF S = {} THEN T
  ELSE LET g == CHOOSE x \in S : TRUE
       IN registerAll(addToPathIndex(T, g), S \ {g})
registerSubtree(T, g) == registerAll(T, Subtree(T, g))

RECURSIVE unregisterAll(_, _)
unregisterAll(T, S) ==
  IF S = {} THEN T
  ELSE LET g == CHOOSE x \in S : TRUE
       IN unregisterAll(removeFromPathIndex(T, g, T.nodes[g].path), S \ {g})
unregisterSubtree(T, g) == unregisterAll(T, Subtree(T, g))

\* findNodeByPath that returns a node of the bucket also when it holds several
findNodeByPath_AnyOfBucket(T, path) ==
  LET key == pathKey(path) IN
  IF key \notin DOMAIN T.pathIndex \/ T.pathIndex[key] = {} THEN Undef
  ELSE CHOOSE g \in T.pathIndex[key] : TRUE

findNodeByPath(T, path) ==
  LET key == pathKey(path) IN
  IF key \notin DOMAIN T.pathIndex THEN Undef
  ELSE IF Cardinality(T.pathIndex[key]) = 1
       THEN CHOOSE g \in T.pathIndex[key] : TRUE
       ELSE Undef

RootNode ==
  [className |-> "DataModel", name |-> <<"g", "a", "m", "e">>, path |-> <<>>,
   parentGuid |-> Null, source |-> Undef, children |-> {}, parent |-> Undef]

\* if (!this.root) { this.root = {...}; nodes.set("root", root); addToPathIndex(root) }
ensureRoot(T) ==
  IF T.root # Null THEN T
  ELSE addToPathIndex([SetNode(T, RootGuid, RootNode) EXCEPT !.root = RootGuid],
                      RootGuid)

\* parent.children.set(node.guid, node); node.parent = parent; node.parentGuid = parent.guid
attach(T, g, p) ==
  LET T1 == [T EXCEPT !.nodes[p].children = @ \cup {g}]
  IN [T1 EXCEPT !.nodes[g].parent = p, !.nodes[g].parentGuid = p]

\* node.parent.children.delete(node.guid); the parent object may have left the table
detach(T, g) ==
  LET p == T.nodes[g].parent IN
  IF p # Undef /\ Has(T, p)
  THEN [T EXCEPT !.nodes[p].children = @ \ {g}]
  ELSE T

\* reparentNode that leaves the node in the children map of its old parent
reparentNode_KeepsOldEntry(T, g, path, parentGuid) ==
  LET byGuid == IF Truthy(parentGuid) /\ Has(T, parentGuid) THEN parentGuid ELSE Undef
      T2 == IF byGuid = Undef /\ Len(path) = 1 THEN ensureRoot(T) ELSE T
      parent == IF byGuid # Undef THEN byGuid
                ELSE IF Len(path) = 1 THEN T2.root
                ELSE findNodeByPath(T2, Front(path))
  IN IF parent # Undef THEN attach(T2, g, parent) ELSE T2

reparentNode(T, g, path, parentGuid) ==
  LET T1 == detach(T, g)
      byGuid == IF Truthy(parentGuid) /\ Has(T1, parentGuid) THEN parentGuid ELSE Undef
      T2 == IF byGuid = Undef /\ Len(path) = 1 THEN ensureRoot(T1) ELSE T1
      parent == IF byGuid # Undef THEN byGuid
                ELSE IF Len(path) = 1 THEN T2.root
                ELSE findNodeByPath(T2, Front(path))
  IN IF parent # Undef THEN attach(T2, g, parent) ELSE T2

RECURSIVE recalcQueue(_, _)
recalcQueue(T, queue) ==
  IF Len(queue) = 0 THEN T
  ELSE LET child == Head(queue)
           T1 == [T EXCEPT !.nodes[child].path =
                     Append(T.nodes[T.nodes[child].parent].path, T.nodes[child].name)]
       IN recalcQueue(T1, Tail(queue) \o SetToSeq(T.nodes[child].children))
recalculateChildPaths(T, g) == recalcQueue(T, SetToSeq(T.nodes[g].children))


NewNode(inst, parentGuid) ==
  [className |-> inst.className, name |-> inst.name, path |-> inst.path,
   parentGuid |-> parentGuid, source |-> inst.source,
   children |-> {}, parent |-> Undef]

NoResult == [isNew |-> FALSE, pathChanged |-> FALSE, nameChanged |-> FALSE,
             parentChanged |-> FALSE, prevPath |-> <<>>]

\* the value returned by updateInstance together with the tree it leaves;
\* hung: the call entered unregisterSubtree / recalculateChildPaths /
\* registerSubtree on a children graph with a cycle and never returns
updateInstance(T, inst) ==
  LET g == inst.guid
      hasParentHint == inst.parentGuid # Undef
      incomingParentGuid == IF hasParentHint THEN inst.parentGuid ELSE Null
  IN
  IF Has(T, g) THEN
    LET existing == T.nodes[g]
        prevPath == existing.path
        pathChanged == ~pathsEqual(existing.path, inst.path)
        nameChanged == existing.name # inst.name
        currentParentGuid ==
          IF existing.parent # Undef THEN existing.parent ELSE existing.parentGuid
        nextParentGuid ==
          IF hasParentHint THEN incomingParentGuid ELSE currentParentGuid
        parentChanged == hasParentHint /\ nextParentGuid # currentParentGuid
        nextSource == IF inst.source # Undef THEN inst.source ELSE existing.source
        res == [isNew |-> FALSE, pathChanged |-> pathChanged,
                nameChanged |-> nameChanged, parentChanged |-> parentChanged,
                prevPath |-> prevPath]
    IN
    IF pathChanged /\ LoopsFrom(T, g)
    THEN [tree |-> T, hung |-> TRUE, result |-> res]
    ELSE
      LET T1 == IF pathChanged THEN unregisterSubtree(T, g) ELSE T
          T2 == [T1 EXCEPT !.nodes[g].className = inst.className,
                           !.nodes[g].name = inst.name,
                           !.nodes[g].path = inst.path,
                           !.nodes[g].parentGuid = nextParentGuid,
                           !.nodes[g].source = nextSource]
      IN
      IF pathChanged \/ nameChanged \/ parentChanged
      THEN LET T3 == reparentNode(T2, g, inst.path, nextParentGuid) IN
           IF LoopsFrom(T3, g)
           THEN [tree |-> T3, hung |-> TRUE, result |-> res]
           ELSE [tree |-> registerSubtree(recalculateChildPaths(T3, g), g),
                 hung |-> FALSE, result |-> res]
      ELSE [tree |-> T2, hung |-> FALSE, result |-> res]
  ELSE
    LET T1 == SetNode(T, g, NewNode(inst, incomingParentGuid))
        T2 == reparentNode(T1, g, inst.path, incomingParentGuid)
        res == [NoResult EXCEPT !.isNew = TRUE]
    IN
    IF LoopsFrom(T2, g)
    THEN [tree |-> T2, hung |-> TRUE, result |-> res]
    ELSE [tree |-> registerSubtree(recalculateChildPaths(T2, g), g),
          hung |-> FALSE, result |-> res]

\* first pass of applyFullSnapshot: create all nodes
RECURSIVE snapshotCreate(_, _)
snapshotCreate(T, instances) ==
  IF Len(instances) = 0 THEN T
  ELSE LET inst == Head(instances)
           pg == IF inst.parentGuid = Undef THEN Null ELSE inst.parentGuid
           T1 == addToPathIndex(SetNode(T, inst.guid, NewNode(inst, pg)), inst.guid)
       IN snapshotCreate(T1, Tail(instances))

\* second pass of applyFullSnapshot: build hierarchy
RECURSIVE snapshotLink(_, _)
snapshotLink(T, instances) ==
  IF Len(instances) = 0 THEN T
  ELSE
    LET inst == Head(instances)
        g == inst.guid
        T1 ==
          IF Len(inst.path) = 1
          THEN attach(ensureRoot(T), g, RootGuid)
          ELSE
            LET explicitParentGuid ==
                  IF inst.parentGuid = Undef THEN Null ELSE inst.parentGuid
                byGuid == IF Truthy(explicitParentGuid) /\ Has(T, explicitParentGuid)
                          THEN explicitParentGuid ELSE Undef
                parent == IF byGuid # Undef THEN byGuid
                          ELSE findNodeByPath(T, Front(inst.path))
            IN IF parent # Undef THEN attach(T, g, parent) ELSE T
    IN snapshotLink(T1, Tail(instances))

\* applyFullSnapshot without `this.root = null'
applyFullSnapshot_KeepsRoot(T, instances) ==
  snapshotLink(snapshotCreate([EmptyTree EXCEPT !.root = T.root], instances), instances)

\* applyFullSnapshot without `this.nodes.clear()'
applyFullSnapshot_KeepsNodes(T, instances) ==
  snapshotLink(snapshotCreate([EmptyTree EXCEPT !.nodes = T.nodes,
                                                !.nodeOrder = T.nodeOrder],
                              instances), instances)

applyFullSnapshot(T, instances) ==
  snapshotLink(snapshotCreate(EmptyTree, instances), instances)

RECURSIVE deleteAll(_, _)
deleteAll(T, S) ==
  IF S = {} THEN T
  ELSE LET g == CHOOSE x \in S : TRUE
           T1 == removeFromPathIndex(T, g, T.nodes[g].path)
           T2 == [T1 EXCEPT !.nodes = [k \in DOMAIN T1.nodes \ {g} |-> T1.nodes[k]],
                            !.nodeOrder = SeqRemove(T1.nodeOrder, g)]
       IN deleteAll(T2, S \ {g})

\* deleteInstance without `node.parent.children.delete(guid)'
deleteInstance_KeepsParentEntry(T, guid) ==
  IF ~Has(T, guid) THEN T ELSE deleteAll(T, Subtree(T, guid))

deleteInstance(T, guid) ==
  IF ~Has(T, guid) THEN T
  ELSE LET T1 == detach(T, guid) IN deleteAll(T1, Subtree(T1, guid))

\* updateScriptSource that writes the source to every node of the table
updateScriptSource_EveryNode(T, guid, source) ==
  [T EXCEPT !.nodes = [k \in DOMAIN T.nodes |-> [T.nodes[k] EXCEPT !.source = source]]]

updateScriptSource(T, guid, source) ==
  IF Has(T, guid) THEN [T EXCEPT !.nodes[guid].source = source] ELSE T


-----------------------------------------------------------------------------
(* FileWriter *)

\* defaultConfig: the field the file layout is specified to depend on
defaultConfig == [suffixModuleScripts |-> FALSE]

\* sanitizeConfig: suffixModuleScripts is kept when it is a boolean
Configs == [suffixModuleScripts : BOOLEAN]

\* config.scriptExtension, as one token
Ext == <<".luau">>
\* path.resolve(config.syncDir), as the segments below the working directory
BaseDir == << <<"s", "y", "n", "c">> >>
\* guid.slice(0, 8)
GuidPrefixLen == 8

FsState == [fileMappings |-> fileMappings, mappingOrder |-> mappingOrder,
            files |-> files, dirs |-> dirs]

\* name.replace(/[<>:"|?*]/g, "_")
sanitizeName(name) ==
  [i \in 1..Len(name) |->
     IF name[i] \in {"<", ">", ":", "\"", "|", "?", "*"} THEN "_" ELSE name[i]]

getScriptFileName(node) ==
  LET parentName == node.path[Len(node.path)] IN
  IF node.name = parentName THEN <<"i", "n", "i", "t">> \o Ext
  ELSE sanitizeName(node.name) \o Ext

\* the first guid, in the order of the mapping table, mapped to the path
findGuidByFilePath(F, filePath) ==
  LET hits == SelectSeq(F.mappingOrder,
                        LAMBDA g : F.fileMappings[g].filePath = filePath)
  IN IF Len(hits) = 0 THEN Undef ELSE hits[1]

\* parts: the sanitized path segments and, for a script, its file name
pathParts(node) ==
  LET dirParts == [i \in 1..Len(node.path) |-> sanitizeName(node.path[i])]
  IN IF isScriptNode(node.className)
     THEN Append(dirParts, getScriptFileName(node))
     ELSE dirParts

desiredPath(node) == BaseDir \o pathParts(node)

\* getFilePath that never disambiguates
getFilePath_NoSuffix(F, node) == desiredPath(node)

getFilePath(F, node) ==
  LET collision == findGuidByFilePath(F, desiredPath(node))
  IN IF collision # Undef /\ collision # node.guid
     THEN LET uniqueName == sanitizeName(node.name) \o <<"_", "_">>
                              \o SubSeq(node.guid, 1, GuidPrefixLen) \o Ext
          IN BaseDir \o Append(Front(pathParts(node)), uniqueName)
     ELSE desiredPath(node)

\* path.dirname
dirname(path) == Front(path)

\* fs.mkdirSync(dirPath, { recursive: true })
ensureDirectory(F, dirPath) ==
  [F EXCEPT !.dirs = @ \cup {SubSeq(dirPath, 1, n) : n \in Len(BaseDir)..Len(dirPath)}]

Entries(F, dir) ==
  {f \in DOMAIN F.files : dirname(f) = dir}
    \cup {d \in F.dirs : Len(d) > 0 /\ dirname(d) = dir}

IsUnder(path, dir) ==
  Len(path) >= Len(dir) /\ SubSeq(path, 1, Len(dir)) = dir

RECURSIVE cleanupParentsIfEmpty(_, _)
cleanupParentsIfEmpty(F, current) ==
  IF ~IsUnder(current, BaseDir) \/ current = BaseDir THEN F
  ELSE IF Entries(F, current) = {}
       THEN cleanupParentsIfEmpty([F EXCEPT !.dirs = @ \ {current}], dirname(current))
       ELSE F

unlink(F, filePath) ==
  [F EXCEPT !.files = [f \in DOMAIN F.files \ {filePath} |-> F.files[f]]]

SetMapping(F, g, m) ==
  [F EXCEPT !.fileMappings = [k \in DOMAIN F.fileMappings \cup {g} |->
                                 IF k = g THEN m ELSE F.fileMappings[k]],
            !.mappingOrder = MapOrderSet(F.mappingOrder, g)]

DeleteMapping(F, g) ==
  [F EXCEPT !.fileMappings = [k \in DOMAIN F.fileMappings \ {g} |-> F.fileMappings[k]],
            !.mappingOrder = SeqRemove(F.mappingOrder, g)]

\* the writer's state after writeScript(node) and the value it returns
writeScript(F, node) ==
  IF ~isScriptNode(node.className) \/ ~Truthy(node.source)
  THEN [fs |-> F, ret |-> Null]
  ELSE
    LET hasMapping == node.guid \in DOMAIN F.fileMappings
        filePath == getFilePath(F, node)
        F1 == ensureDirectory(F, dirname(filePath))
        oldPath == IF hasMapping THEN F.fileMappings[node.guid].filePath ELSE filePath
        F2 == IF hasMapping /\ oldPath # filePath /\ oldPath \in DOMAIN F1.files
              THEN cleanupParentsIfEmpty(unlink(F1, oldPath), dirname(oldPath))
              ELSE F1
    IN
    \* fs.writeFileSync throws when the directory of the file is gone
    IF dirname(filePath) \notin F2.dirs
    THEN [fs |-> F2, ret |-> Null]
    ELSE
      LET F3 == [F2 EXCEPT !.files = [f \in DOMAIN F2.files \cup {filePath} |->
                                        IF f = filePath THEN node.source ELSE F2.files[f]]]
          F4 == SetMapping(F3, node.guid, [filePath |-> filePath,
                                           className |-> node.className])
      IN [fs |-> F4, ret |-> filePath]

deleteFilePathInternal(F, filePath) ==
  LET F1 == IF filePath \in DOMAIN F.files THEN unlink(F, filePath) ELSE F
      owner == findGuidByFilePath(F1, filePath)
  IN IF owner # Undef THEN DeleteMapping(F1, owner) ELSE F1

deleteScript(F, guid) ==
  IF guid \notin DOMAIN F.fileMappings THEN F
  ELSE DeleteMapping(deleteFilePathInternal(F, F.fileMappings[guid].filePath), guid)

deleteFilePath(F, filePath) == deleteFilePathInternal(F, filePath)

RECURSIVE writeAll(_, _)
writeAll(F, nodeSeq) ==
  IF Len(nodeSeq) = 0 THEN F
  ELSE LET node == Head(nodeSeq)
           F1 == IF isScriptNode(node.className) THEN writeScript(F, node).fs ELSE F
       IN writeAll(F1, Tail(nodeSeq))

\* nodeSeq: the values of the node table in iteration order
writeTree(F, nodeSeq) ==
  writeAll([F EXCEPT !.fileMappings = <<>>, !.mappingOrder = <<>>], nodeSeq)

SubDirs(F, dirPath) == {d \in F.dirs : Len(d) > 0 /\ dirname(d) = dirPath}

\* cleanupEmptyDirsRecursive and its loop over the subdirectories
RECURSIVE cleanupEmptyDirsRecursive(_, _)
RECURSIVE cleanupSubDirs(_, _)
\* cleanupEmptyDirsRecursive that reads the directory once, before it has
\* gone through the subdirectories
cleanupEmptyDirsRecursive_ReadOnce(F, dirPath) ==
  IF dirPath \notin F.dirs THEN F
  ELSE IF Entries(F, dirPath) = {} /\ dirPath # BaseDir
       THEN [F EXCEPT !.dirs = @ \ {dirPath}]
       ELSE cleanupSubDirs(F, SubDirs(F, dirPath))

cleanupEmptyDirsRecursive(F, dirPath) ==
  IF dirPath \notin F.dirs THEN F
  ELSE LET F1 == cleanupSubDirs(F, SubDirs(F, dirPath))
       IN IF Entries(F1, dirPath) = {} /\ dirPath # BaseDir
          THEN [F1 EXCEPT !.dirs = @ \ {dirPath}]
          ELSE F1

cleanupSubDirs(F, subs) ==
  IF subs = {} THEN F
  ELSE LET d == CHOOSE x \in subs : TRUE
       IN cleanupSubDirs(cleanupEmptyDirsRecursive(F, d), subs \ {d})

cleanupEmptyDirectories(F) == cleanupEmptyDirsRecursive(F, BaseDir)

-----------------------------------------------------------------------------
(* SourcemapGenerator.generate *)

\* String.prototype.localeCompare on the characters used here: punctuation
\* sorts before digits, digits before letters
CharOrder == <<"_", ":", "/", "0", "1", "2", "a", "b", "c", "A", "B">>
CharRank(c) == CHOOSE i \in 1..Len(CharOrder) : CharOrder[i] = c

RECURSIVE localeCompare(_, _)
localeCompare(a, b) ==
  IF Len(a) = 0 /\ Len(b) = 0 THEN 0
  ELSE IF Len(a) = 0 THEN -1
  ELSE IF Len(b) = 0 THEN 1
  ELSE IF CharRank(a[1]) < CharRank(b[1]) THEN -1
  ELSE IF CharRank(a[1]) > CharRank(b[1]) THEN 1
  ELSE localeCompare(Tail(a), Tail(b))

ClassOrder == <<"DataModel", "Folder", "LocalScript", "ModuleScript", "Script">>
ClassRank(c) == CHOOSE i \in 1..Len(ClassOrder) : ClassOrder[i] = c

\* the comparator of sortTreeNodes: name, then className, then guid
NodeBefore(T, a, b) ==
  LET nameCompare == localeCompare(T.nodes[a].name, T.nodes[b].name) IN
  IF nameCompare # 0 THEN nameCompare < 0
  ELSE IF ClassRank(T.nodes[a].className) # ClassRank(T.nodes[b].className)
       THEN ClassRank(T.nodes[a].className) < ClassRank(T.nodes[b].className)
       ELSE localeCompare(a, b) < 0

RECURSIVE sortTreeNodes(_, _)
sortTreeNodes(T, S) ==
  IF S = {} THEN <<>>
  ELSE LET first == CHOOSE a \in S : \A b \in S \ {a} : NodeBefore(T, a, b)
       IN <<first>> \o sortTreeNodes(T, S \ {first})

findRootNode(T) ==
  IF Has(T, RootGuid) THEN RootGuid
  ELSE LET found == SelectSeq(T.nodeOrder,
                      LAMBDA g : Len(T.nodes[g].path) = 0
                                 /\ T.nodes[g].className = "DataModel")
       IN IF Len(found) > 0 THEN found[1] ELSE Null

\* path.relative(process.cwd(), filePath) with "/" as the separator
RECURSIVE relativePath(_)
relativePath(filePath) ==
  IF Len(filePath) = 0 THEN <<>>
  ELSE IF Len(filePath) = 1 THEN filePath[1]
  ELSE filePath[1] \o <<"/">> \o relativePath(Tail(filePath))

\* buildNodeFromTree and its loop over the sorted children; both return the
\* nodes built (`built': a sequence of at most one node) and the visited set
RECURSIVE buildNodeFromTree(_, _, _, _)
RECURSIVE buildChildren(_, _, _, _)
\* the loop over the children with a visited set that each child starts from
\* the set of its parent instead of the one its elder siblings left
RECURSIVE buildChildren_VisitedPerBranch(_, _, _, _)
buildChildren_VisitedPerBranch(T, FM, sorted, visited) ==
  IF Len(sorted) = 0 THEN [built |-> <<>>, visited |-> visited]
  ELSE LET one == buildNodeFromTree(T, FM, Head(sorted), visited)
           rest == buildChildren_VisitedPerBranch(T, FM, Tail(sorted), visited)
       IN [built |-> one.built \o rest.built, visited |-> visited]

buildNodeFromTree(T, FM, g, visited) ==
  IF g \in visited THEN [built |-> <<>>, visited |-> visited]
  ELSE
    LET kids == buildChildren(T, FM, sortTreeNodes(T, T.nodes[g].children),
                              visited \cup {g})
        result == [name |-> T.nodes[g].name, className |-> T.nodes[g].className,
                   guid |-> g,
                   filePaths |-> IF g \in DOMAIN FM
                                 THEN <<relativePath(FM[g].filePath)>> ELSE <<>>,
                   children |-> kids.built]
    IN [built |-> <<result>>, visited |-> kids.visited]

buildChildren(T, FM, sorted, visited) ==
  IF Len(sorted) = 0 THEN [built |-> <<>>, visited |-> visited]
  ELSE LET one == buildNodeFromTree(T, FM, Head(sorted), visited)
           rest == buildChildren(T, FM, Tail(sorted), one.visited)
       IN [built |-> one.built \o rest.built, visited |-> rest.visited]

generate(T, FM) ==
  LET rootNode == findRootNode(T)
      serviceNodes ==
        IF rootNode # Null THEN sortTreeNodes(T, T.nodes[rootNode].children)
        ELSE sortTreeNodes(T, {g \in DOMAIN T.nodes : Len(T.nodes[g].path) = 1})
  IN [name |-> <<"G", "a", "m", "e">>, className |-> "DataModel",
      children |-> buildChildren(T, FM, serviceNodes, {}).built]

-----------------------------------------------------------------------------
(* SourcemapGenerator: incremental maintenance of sourcemap.json.  A node's *)
(* absent `children' or `filePaths' field is the empty sequence, an absent  *)
(* guid is Undef and an absent class name is the empty string: the code     *)
(* reads each pair alike.  The file is a record in every state: NoFile      *)
(* before it exists, BadFile when its content does not parse, and the       *)
(* root otherwise.                                                          *)

NoFile == [file |-> "missing"]
BadFile == [file |-> "corrupt"]
IsRoot(s) == "children" \in DOMAIN s

EmptyRoot == [name |-> <<"G", "a", "m", "e">>, className |-> "DataModel",
              children |-> <<>>]

\* fs.existsSync + JSON.parse in readOrCreateRoot: a file that does not
\* parse is logged and read as a new root
readOrCreateRoot(file) == IF IsRoot(file) THEN file ELSE EmptyRoot

pathsMatch(path1, path2) == path1 = path2

\* Array.prototype.findIndex with the predicates the code passes, counted
\* from 1, 0 when nothing matches
FirstIndex(S) == IF S = {} THEN 0 ELSE CHOOSE i \in S : \A j \in S : i <= j
IndexOfGuid(children, guid) ==
  FirstIndex({i \in 1..Len(children) : children[i].guid = guid})
IndexOfName(children, name) ==
  FirstIndex({i \in 1..Len(children) : children[i].name = name})
IndexOfNameAndClass(children, name, className) ==
  FirstIndex({i \in 1..Len(children) :
                children[i].name = name /\ children[i].className = className})

\* SourcemapGenerator.findNodeByPath: the first node, in the order of the
\* node table, that carries the path; Undef when there is none
sourcemapFindNodeByPath(T, pathSegments) ==
  LET hits == {i \in 1..Len(T.nodeOrder) :
                 pathsMatch(T.nodes[T.nodeOrder[i]].path, pathSegments)}
  IN IF hits = {} THEN Undef ELSE T.nodeOrder[FirstIndex(hits)]

\* the loop of insertNodeAtPath from segment i on, as the children list it
\* leaves in place of currentChildren
RECURSIVE insertChildren(_, _, _, _, _, _)
insertChildren(currentChildren, newNode, pathSegments, i, T, isNewEntry) ==
  LET segment == pathSegments[i]
      ancestorGuid == sourcemapFindNodeByPath(T, SubSeq(pathSegments, 1, i))
      existingIndex ==
        IF Truthy(ancestorGuid) THEN IndexOfGuid(currentChildren, ancestorGuid)
        ELSE IndexOfName(currentChildren, segment)
  IN
  IF i = Len(pathSegments) THEN
    LET guidIndex == IF Truthy(newNode.guid)
                     THEN IndexOfGuid(currentChildren, newNode.guid) ELSE 0
        sameIndex == IndexOfNameAndClass(currentChildren, segment,
                                         newNode.className)
    IN IF guidIndex # 0 THEN [currentChildren EXCEPT ![guidIndex] = newNode]
       ELSE IF isNewEntry THEN Append(currentChildren, newNode)
       ELSE IF sameIndex # 0 THEN [currentChildren EXCEPT ![sameIndex] = newNode]
       ELSE Append(currentChildren, newNode)
  ELSE
    LET placeholder ==
          [name |-> segment,
           className |-> IF ancestorGuid # Undef
                         THEN T.nodes[ancestorGuid].className ELSE "Folder",
           guid |-> ancestorGuid, filePaths |-> <<>>, children |-> <<>>]
        held == IF existingIndex = 0 THEN Append(currentChildren, placeholder)
                ELSE currentChildren
        at == IF existingIndex = 0 THEN Len(held) ELSE existingIndex
    IN [held EXCEPT ![at].children =
          insertChildren(held[at].children, newNode, pathSegments, i + 1, T,
                         isNewEntry)]

insertNodeAtPath(smRoot, newNode, pathSegments, T, isNewEntry) ==
  IF Len(pathSegments) = 0 THEN smRoot
  ELSE [smRoot EXCEPT !.children =
          insertChildren(smRoot.children, newNode, pathSegments, 1, T,
                         isNewEntry)]

\* Array.prototype.splice(index, 1)
RemoveAt(s, i) == SubSeq(s, 1, i - 1) \o SubSeq(s, i + 1, Len(s))

\* pruneRecursive without the clean-up of the containers it emptied
RECURSIVE pruneRecursive_NoCollapse(_, _, _, _, _)
pruneRecursive_NoCollapse(children, pathSegments, idx, targetClassName, targetGuid) ==
  LET name == pathSegments[idx]
      atEnd == idx = Len(pathSegments)
      Matches(n) ==
        /\ n.name = name
        /\ atEnd =>
             IF Truthy(targetGuid) /\ Truthy(n.guid) THEN n.guid = targetGuid
             ELSE IF targetClassName # "" THEN n.className = targetClassName
             ELSE TRUE
      matched == FirstIndex({i \in 1..Len(children) : Matches(children[i])})
      byGuid == IF matched = 0 /\ atEnd /\ Truthy(targetGuid)
                THEN IndexOfGuid(children, targetGuid) ELSE matched
      nodeIndex == IF byGuid = 0 /\ atEnd THEN IndexOfName(children, name)
                   ELSE byGuid
  IN
  IF nodeIndex = 0 THEN [children |-> children, removed |-> FALSE]
  ELSE IF atEnd THEN [children |-> RemoveAt(children, nodeIndex),
                      removed |-> TRUE]
  ELSE
    LET below == pruneRecursive_NoCollapse(children[nodeIndex].children, pathSegments,
                                idx + 1, targetClassName, targetGuid)
        kept == [children EXCEPT ![nodeIndex].children = below.children]
    IN [children |-> kept, removed |-> below.removed]

\* pruneRecursive of removePath: the list it leaves and what it returns
RECURSIVE pruneRecursive(_, _, _, _, _)
pruneRecursive(children, pathSegments, idx, targetClassName, targetGuid) ==
  LET name == pathSegments[idx]
      atEnd == idx = Len(pathSegments)
      Matches(n) ==
        /\ n.name = name
        /\ atEnd =>
             IF Truthy(targetGuid) /\ Truthy(n.guid) THEN n.guid = targetGuid
             ELSE IF targetClassName # "" THEN n.className = targetClassName
             ELSE TRUE
      matched == FirstIndex({i \in 1..Len(children) : Matches(children[i])})
      byGuid == IF matched = 0 /\ atEnd /\ Truthy(targetGuid)
                THEN IndexOfGuid(children, targetGuid) ELSE matched
      nodeIndex == IF byGuid = 0 /\ atEnd THEN IndexOfName(children, name)
                   ELSE byGuid
  IN
  IF nodeIndex = 0 THEN [children |-> children, removed |-> FALSE]
  ELSE IF atEnd THEN [children |-> RemoveAt(children, nodeIndex),
                      removed |-> TRUE]
  ELSE
    LET below == pruneRecursive(children[nodeIndex].children, pathSegments,
                                idx + 1, targetClassName, targetGuid)
        kept == [children EXCEPT ![nodeIndex].children = below.children]
    IN IF below.removed /\ Len(below.children) = 0
          /\ Len(children[nodeIndex].filePaths) = 0
       THEN [children |-> RemoveAt(kept, nodeIndex), removed |-> TRUE]
       ELSE [children |-> kept, removed |-> below.removed]

\* removePath: the root it leaves and what it returns
removePath(smRoot, pathSegments, targetClassName, targetGuid) ==
  IF Len(pathSegments) = 0 THEN [root |-> smRoot, removed |-> FALSE]
  ELSE LET r == pruneRecursive(smRoot.children, pathSegments, 1,
                               targetClassName, targetGuid)
       IN [root |-> [smRoot EXCEPT !.children = r.children],
           removed |-> r.removed]

\* generateAndWrite: the content of the file afterwards
generateAndWrite(T, FM) == generate(T, FM)

\* upsertSubtree: the content of the file afterwards.  oldPath is the empty
\* path when the caller passes none (removePath removes nothing at the empty
\* path, so the two read alike); nothing in the try block throws on the
\* values of the model, and a first call of buildNodeFromTree always builds
\* a node
upsertSubtree(file, T, FM, g, oldPath, isNew) ==
  LET read == readOrCreateRoot(file)
      pruned == IF ~pathsMatch(oldPath, T.nodes[g].path)
                THEN removePath(read, oldPath, T.nodes[g].className, g).root
                ELSE read
      newSubtree == buildNodeFromTree(T, FM, g, {}).built[1]
  IN insertNodeAtPath(pruned, newSubtree, T.nodes[g].path, T, isNew)

\* prunePath: the content of the file afterwards and what it returns
prunePath(file, pathSegments, T, FM, targetClassName, targetGuid) ==
  IF ~IsRoot(file) THEN [file |-> generateAndWrite(T, FM), ret |-> TRUE]
  ELSE LET r == removePath(file, pathSegments, targetClassName, targetGuid)
       IN [file |-> IF r.removed THEN r.root ELSE file, ret |-> r.removed]

-----------------------------------------------------------------------------
(* PackCommand: regenerateSourcemap and packIntoSourcemap.  A property or   *)
(* attribute object is Undef when absent, the empty tuple when it has no    *)
(* key, and a tuple of strings otherwise.                                   *)

pathClassKey(pathSegments, className) == <<pathSegments, className>>

\* path.join("/")
RECURSIVE joinPath(_)
joinPath(path) ==
  IF Len(path) = 0 THEN <<>>
  ELSE IF Len(path) = 1 THEN path[1]
  ELSE path[1] \o <<"/">> \o joinPath(Tail(path))

\* indexExisting: the nodes of the existing sourcemap in the order visited,
\* each with its path
RECURSIVE existingEntries(_, _)
existingEntries(children, currentPath) ==
  IF Len(children) = 0 THEN <<>>
  ELSE LET node == Head(children)
           nodePath == Append(currentPath, node.name)
       IN <<[path |-> nodePath, className |-> node.className,
             guid |-> node.guid, filePaths |-> node.filePaths]>>
            \o existingEntries(node.children, nodePath)
            \o existingEntries(Tail(children), currentPath)

\* guidFilePaths.get(guid): the last entry set for the guid, <<>> when none
guidFilePaths(entries, guid) ==
  LET hits == {i \in 1..Len(entries) :
                 /\ Len(entries[i].filePaths) > 0
                 /\ Truthy(entries[i].guid)
                 /\ entries[i].guid = guid}
  IN IF hits = {} THEN <<>>
     ELSE entries[CHOOSE i \in hits : \A j \in hits : j <= i].filePaths

\* pathClassFilePaths.get(key): the file paths pushed under the key, in order
pathClassFilePaths(entries, key) ==
  LET hits == SelectSeq(entries,
                LAMBDA e : Len(e.filePaths) > 0
                           /\ pathClassKey(e.path, e.className) = key)
  IN [i \in 1..Len(hits) |-> hits[i].filePaths]

\* the comparator of the sort of the snapshot
SnapshotCompare(a, b) ==
  IF Len(a.path) # Len(b.path) THEN Len(a.path) - Len(b.path)
  ELSE localeCompare(joinPath(a.path), joinPath(b.path))

\* Array.prototype.sort, which is stable, with that comparator
RECURSIVE InsertSorted(_, _)
InsertSorted(sorted, item) ==
  IF Len(sorted) = 0 THEN <<item>>
  ELSE IF SnapshotCompare(item, Head(sorted)) < 0 THEN <<item>> \o sorted
  ELSE <<Head(sorted)>> \o InsertSorted(Tail(sorted), item)
RECURSIVE SortSnapshot(_)
SortSnapshot(snapshot) ==
  IF Len(snapshot) = 0 THEN <<>>
  ELSE InsertSorted(SortSnapshot(Front(snapshot)), Last(snapshot))

\* the loop of regenerateSourcemap over the sorted items: the nodes created,
\* each with the guid of the node it was pushed under, and the cursors
RECURSIVE placeItems(_, _, _, _)
placeItems(items, entries, placed, cursor) ==
  IF Len(items) = 0 THEN placed
  ELSE
    LET item == Head(items)
        directFilePaths == guidFilePaths(entries, item.guid)
        key == pathClassKey(item.path, item.className)
        bucket == pathClassFilePaths(entries, key)
        at == IF key \in DOMAIN cursor THEN cursor[key] ELSE 0
        useBucket == /\ Len(directFilePaths) = 0
                     /\ at < Len(bucket)
                     /\ Len(bucket[at + 1]) > 0
        byGuid == {placed[i].guid : i \in 1..Len(placed)}
        parentNode == IF /\ Truthy(item.parentGuid)
                         /\ item.parentGuid # RootGuid
                         /\ item.parentGuid \in byGuid
                      THEN item.parentGuid ELSE RootGuid
        node == [name |-> item.name, className |-> item.className,
                 guid |-> item.guid,
                 filePaths |-> IF Len(directFilePaths) > 0 THEN directFilePaths
                               ELSE IF useBucket THEN bucket[at + 1] ELSE <<>>,
                 under |-> parentNode]
    IN placeItems(Tail(items), entries, Append(placed, node),
                  IF useBucket
                  THEN [k \in DOMAIN cursor \cup {key} |->
                          IF k = key THEN at + 1 ELSE cursor[k]]
                  ELSE cursor)

\* the children pushed under a node, in the order pushed
RECURSIVE childrenUnder(_, _)
childrenUnder(placed, parent) ==
  LET mine == SelectSeq(placed, LAMBDA n : n.under = parent)
  IN [i \in 1..Len(mine) |->
        [name |-> mine[i].name, className |-> mine[i].className,
         guid |-> mine[i].guid, filePaths |-> mine[i].filePaths,
         properties |-> Undef, attributes |-> Undef,
         children |-> childrenUnder(placed, mine[i].guid)]]

\* regenerateSourcemap; `existing' is the file as read (readExistingSourcemap
\* gives null for a file that is missing or does not parse)
regenerateSourcemap(snapshot, existing) ==
  LET entries == IF IsRoot(existing) THEN existingEntries(existing.children, <<>>)
                 ELSE <<>>
      placed == placeItems(SortSnapshot(snapshot), entries, <<>>, <<>>)
  IN [name |-> <<"G", "a", "m", "e">>, className |-> "DataModel",
      children |-> childrenUnder(placed, RootGuid)]

HasKeys(object) == object # Undef /\ Len(object) > 0

\* visit of packIntoSourcemap over a list of siblings: the nodes it leaves
\* and the guids used
RECURSIVE packVisit(_, _, _, _, _)
packVisit(children, currentPath, snapshot, usedGuids, scriptsOnly) ==
  IF Len(children) = 0 THEN [children |-> <<>>, used |-> usedGuids]
  ELSE
    LET node == Head(children)
        nodePath == Append(currentPath, node.name)
        direct == {i \in 1..Len(snapshot) :
                     Truthy(node.guid) /\ snapshot[i].guid = node.guid}
        bucket == SelectSeq(snapshot,
                    LAMBDA item : pathClassKey(item.path, item.className)
                                    = pathClassKey(nodePath, node.className))
        free == {i \in 1..Len(bucket) : bucket[i].guid \notin usedGuids}
        found == direct # {} \/ free # {}
        match == IF direct # {}
                 THEN snapshot[CHOOSE i \in direct : \A j \in direct : j <= i]
                 ELSE bucket[CHOOSE i \in free : \A j \in free : i <= j]
        used1 == IF found THEN usedGuids \cup {match.guid} ELSE usedGuids
        packed ==
          IF found
          THEN [node EXCEPT
                  !.properties = IF HasKeys(match.properties) THEN match.properties
                                 ELSE IF ~scriptsOnly THEN Undef ELSE @,
                  !.attributes = IF HasKeys(match.attributes) THEN match.attributes
                                 ELSE IF ~scriptsOnly THEN Undef ELSE @]
          ELSE IF ~scriptsOnly
          THEN [node EXCEPT !.properties = Undef, !.attributes = Undef]
          ELSE node
        below == packVisit(node.children, nodePath, snapshot, used1, scriptsOnly)
        rest == packVisit(Tail(children), currentPath, snapshot, below.used,
                          scriptsOnly)
    IN [children |-> <<[packed EXCEPT !.children = below.children]>>
                       \o rest.children,
        used |-> rest.used]

\* packIntoSourcemap: the sourcemap it leaves, stamped (packedAt left out)
packIntoSourcemap(snapshot, regenerated, scriptsOnly) ==
  [name |-> regenerated.name, className |-> regenerated.className,
   children |-> packVisit(regenerated.children, <<>>, snapshot, {},
                          scriptsOnly).children,
   azul |-> [packVersion |-> 1,
             mode |-> IF scriptsOnly THEN "scripts-and-descendants" ELSE "all"]]

\* fs.readFileSync of filePaths[0]: the content of the file of that relative
\* path, Undef when the read throws
readScriptFile(F, relative) ==
  LET at == {fp \in DOMAIN F.files : relativePath(fp) = relative}
  IN IF at = {} THEN Undef ELSE F.files[CHOOSE fp \in at : TRUE]

\* an optional field of a node read from the file
FieldOf(node, field) == IF field \in DOMAIN node THEN node[field] ELSE Undef

\* randomUUID(): the n-th guid minted, which no instance of the editor and no
\* earlier call carries
RandomUUID(n) == <<"r", "a", "n", "d", "o", "m", CharOrder[n]>>

\* the entries without guid at or below the children
RECURSIVE Guidless(_)
Guidless(children) ==
  IF Len(children) = 0 THEN 0
  ELSE (IF Head(children).guid = Undef THEN 1 ELSE 0)
         + Guidless(Head(children).children) + Guidless(Tail(children))

\* visit of buildInstancesFromSourcemap over a list of siblings, after
\* `minted' calls of randomUUID
RECURSIVE buildVisit(_, _, _, _, _)
buildVisit(children, currentPath, parentGuid, F, minted) ==
  IF Len(children) = 0 THEN <<>>
  ELSE
    LET node == Head(children)
        nodePath == Append(currentPath, node.name)
        guid == IF node.guid # Undef THEN node.guid ELSE RandomUUID(minted + 1)
        mintedHere == minted + (IF node.guid # Undef THEN 0 ELSE 1)
        instance ==
          [guid |-> guid, className |-> node.className,
           name |-> node.name, path |-> nodePath, parentGuid |-> parentGuid,
           properties |-> FieldOf(node, "properties"),
           attributes |-> FieldOf(node, "attributes"),
           source |-> IF isScriptNode(node.className) /\ Len(node.filePaths) > 0
                      THEN readScriptFile(F, node.filePaths[1]) ELSE Undef]
    IN <<instance>> \o buildVisit(node.children, nodePath, guid, F, mintedHere)
         \o buildVisit(Tail(children), currentPath, parentGuid, F,
                       mintedHere + Guidless(node.children))

\* results.sort((a, b) => a.path.length - b.path.length), a stable sort
RECURSIVE InsertByLength(_, _)
InsertByLength(sorted, item) ==
  IF Len(sorted) = 0 THEN <<item>>
  ELSE IF Len(item.path) < Len(Head(sorted).path) THEN <<item>> \o sorted
  ELSE <<Head(sorted)>> \o InsertByLength(Tail(sorted), item)
RECURSIVE SortByLength(_)
SortByLength(results) ==
  IF Len(results) = 0 THEN <<>>
  ELSE InsertByLength(SortByLength(Front(results)), Last(results))

\* buildInstancesFromSourcemap; Null when the file is missing or does not parse
buildInstancesFromSourcemap(file, F) ==
  IF ~IsRoot(file) THEN Null
  ELSE SortByLength(buildVisit(file.children, <<>>, Undef, F, 0))

-----------------------------------------------------------------------------
(* Messages of the editor: InstanceData *)

Sources == {Undef, <<"s">>}
Hints == {Undef, Null} \cup Guids

\* an instance names itself in the last segment of its path
Instance(g, cls, path, hint, src) ==
  [guid |-> g, className |-> cls, name |-> Last(path), path |-> path,
   parentGuid |-> hint, source |-> src]

\* what one message of the editor can say: a service (path length 1) is a
\* child of the DataModel and names no instance as its parent, and no instance
\* is its own parent
WellFormed(inst) ==
  /\ Len(inst.path) = 1 => inst.parentGuid \in {Undef, Null}
  /\ inst.parentGuid # inst.guid

TreeInsts ==
  {inst \in {Instance(g, "ModuleScript", p, h, <<"s">>) :
               g \in Guids, p \in Paths, h \in Hints} : WellFormed(inst)}

\* A full snapshot serialises one state of the editor's tree: one instance per
\* guid, every ancestor of an instance is part of the snapshot, and a
\* parentGuid (when sent) names the instance at the parent path.
PathsComplete(ps) ==
  \A i \in DOMAIN ps :
     Len(ps[i]) > 1 => \E j \in DOMAIN ps : ps[j] = Front(ps[i])

HintsFit(ps, hs) ==
  \A i \in DOMAIN ps :
     hs[i] # Undef =>
        /\ Len(ps[i]) > 1
        /\ \E j \in DOMAIN ps : Guid(j) = hs[i] /\ ps[j] = Front(ps[i])

SnapshotOf(ps, hs) ==
  [i \in DOMAIN ps |-> Instance(Guid(i), "ModuleScript", ps[i], hs[i], <<"s">>)]

SnapshotsOfSize(n) ==
  LET pathSeqs == {ps \in [1..n -> Paths] : PathsComplete(ps)}
      hintSeqs == [1..n -> {Undef} \cup Guids]
  IN UNION {{SnapshotOf(ps, hs) : hs \in {h \in hintSeqs : HintsFit(ps, h)}} :
              ps \in pathSeqs}

Snapshots == UNION {SnapshotsOfSize(n) : n \in 1..MaxGuid}

\* the number of events explored after a snapshot
MaxAfterSnapshot == 1

-----------------------------------------------------------------------------
(* The tree manager's handlers *)

SetTree(T) ==
  /\ nodes' = T.nodes
  /\ nodeOrder' = T.nodeOrder
  /\ pathIndex' = T.pathIndex
  /\ root' = T.root

Init ==
  /\ nodes = <<>>
  /\ nodeOrder = <<>>
  /\ pathIndex = <<>>
  /\ root = Null
  /\ fileMappings = <<>>
  /\ mappingOrder = <<>>
  /\ files = <<>>
  /\ dirs = {BaseDir}
  /\ sourcemap = Null
  /\ config = defaultConfig
  /\ pack = PackIdle
  /\ watcher = WatcherIdle
  /\ hung = FALSE
  /\ steps = 0
  /\ last = [op |-> "init"]

ApplyFullSnapshot(instances) ==
  /\ ~hung
  /\ UNCHANGED <<fsVars, sourcemap, config, pack, watcher>>
  /\ steps < MaxSteps - MaxAfterSnapshot
  /\ SetTree(applyFullSnapshot(TreeState, instances))
  /\ last' = [op |-> "applyFullSnapshot", instances |-> instances,
              prior |-> [root |-> root, size |-> Cardinality(DOMAIN nodes)]]
  /\ steps' = MaxSteps - MaxAfterSnapshot
  /\ UNCHANGED hung

\* the parentGuid updateInstance hands to reparentNode: the one of the
\* message, else the current parent of an existing node
reparentArgument(T, inst) ==
  IF inst.parentGuid # Undef THEN inst.parentGuid
  ELSE IF ~Has(T, inst.guid) THEN Null
  ELSE IF T.nodes[inst.guid].parent # Undef THEN T.nodes[inst.guid].parent
  ELSE T.nodes[inst.guid].parentGuid

UpdateInstance(inst) ==
  /\ ~hung
  /\ UNCHANGED <<fsVars, sourcemap, config, pack, watcher>>
  /\ steps < MaxSteps
  /\ LET r == updateInstance(TreeState, inst) IN
       /\ SetTree(r.tree)
       /\ hung' = r.hung
       /\ last' = [op |-> "updateInstance", guid |-> inst.guid, result |-> r.result,
                   prevParent |-> IF inst.guid \in DOMAIN nodes
                                  THEN nodes[inst.guid].parent ELSE Undef,
                   path |-> inst.path, source |-> inst.source,
                   parentArg |-> reparentArgument(TreeState, inst)]
  /\ steps' = steps + 1

DeleteInstance(guid) ==
  /\ ~hung
  /\ UNCHANGED <<fsVars, sourcemap, config, pack, watcher>>
  /\ steps < MaxSteps
  /\ SetTree(deleteInstance(TreeState, guid))
  /\ last' = [op |-> "deleteInstance", guid |-> guid]
  /\ steps' = steps + 1
  /\ UNCHANGED hung

UpdateScriptSource(guid, source) ==
  /\ ~hung
  /\ UNCHANGED <<fsVars, sourcemap, config, pack, watcher>>
  /\ steps < MaxSteps
  /\ SetTree(updateScriptSource(TreeState, guid, source))
  /\ last' = [op |-> "updateScriptSource", guid |-> guid, source |-> source]
  /\ steps' = steps + 1
  /\ UNCHANGED hung

NextEvents ==
  \/ \E inst \in TreeInsts : UpdateInstance(inst)
  \/ \E g \in Guids : DeleteInstance(g)
  \/ \E g \in Guids : UpdateScriptSource(g, <<"t">>)

SpecEvents == Init /\ [][NextEvents]_vars


Next ==
  \/ \E instances \in Snapshots : ApplyFullSnapshot(instances)
  \/ \E inst \in TreeInsts : UpdateInstance(inst)
  \/ \E g \in Guids : DeleteInstance(g)
  \/ \E g \in Guids : UpdateScriptSource(g, <<"t">>)

Spec == Init /\ [][Next]_vars

-----------------------------------------------------------------------------
(* The file writer's operations *)

\* the source text a script carries, telling the guids apart
SourceOf(i) == <<"s", Guid(i)[1], Guid(i)[Len(Guid(i))]>>

ScriptNode(i, path, source) ==
  [guid |-> Guid(i), className |-> "ModuleScript", name |-> Last(path),
   path |-> path, source |-> source]

FolderNode(i, path) ==
  [guid |-> Guid(i), className |-> "Folder", name |-> Last(path),
   path |-> path, source |-> Undef]

\* the nodes handed to writeScript: scripts with a source, scripts with the
\* empty source, and folders
WriterNodes ==
  {ScriptNode(i, p, SourceOf(i)) : i \in 1..MaxGuid, p \in Paths}
    \cup {ScriptNode(i, p, EmptyString) : i \in 1..MaxGuid, p \in Paths}
    \cup {FolderNode(i, p) : i \in 1..MaxGuid, p \in Paths}

\* the node tables handed to writeTree, in iteration order
WriterTrees ==
  UNION {{[i \in 1..n |-> ScriptNode(i, ps[i], SourceOf(i))] :
            ps \in {q \in [1..n -> Paths] : PathsComplete(q)}} : n \in 1..MaxGuid}

SetFs(F) ==
  /\ fileMappings' = F.fileMappings
  /\ mappingOrder' = F.mappingOrder
  /\ files' = F.files
  /\ dirs' = F.dirs

WriteScript(node) ==
  /\ steps < MaxSteps
  /\ LET r == writeScript(FsState, node) IN
       /\ SetFs(r.fs)
       /\ last' = [op |-> "writeScript", node |-> node, ret |-> r.ret,
                   hadMapping |-> node.guid \in DOMAIN fileMappings,
                   target |-> getFilePath(FsState, node),
                   collision |-> findGuidByFilePath(FsState, desiredPath(node)),
                   oldPath |-> IF node.guid \in DOMAIN fileMappings
                               THEN fileMappings[node.guid].filePath ELSE Null]
  /\ steps' = steps + 1
  /\ UNCHANGED <<treeVars, sourcemap, config, pack, watcher, hung>>

WriteTree(nodeSeq) ==
  /\ steps < MaxSteps
  /\ SetFs(writeTree(FsState, nodeSeq))
  /\ last' = [op |-> "writeTree", nodeSeq |-> nodeSeq]
  /\ steps' = steps + 1
  /\ UNCHANGED <<treeVars, sourcemap, config, pack, watcher, hung>>

DeleteScript(guid) ==
  /\ steps < MaxSteps
  /\ SetFs(deleteScript(FsState, guid))
  /\ last' = [op |-> "deleteScript", guid |-> guid,
              hadMapping |-> guid \in DOMAIN fileMappings,
              oldPath |-> IF guid \in DOMAIN fileMappings
                          THEN fileMappings[guid].filePath ELSE Null]
  /\ steps' = steps + 1
  /\ UNCHANGED <<treeVars, sourcemap, config, pack, watcher, hung>>

\* the paths deleteFilePath is called with: files on disk and mapped paths
KnownFilePaths ==
  DOMAIN files \cup {fileMappings[g].filePath : g \in DOMAIN fileMappings}

DeleteFilePath(filePath) ==
  /\ steps < MaxSteps
  /\ SetFs(deleteFilePath(FsState, filePath))
  /\ last' = [op |-> "deleteFilePath", filePath |-> filePath]
  /\ steps' = steps + 1
  /\ UNCHANGED <<treeVars, sourcemap, config, pack, watcher, hung>>

CleanupEmptyDirectories ==
  /\ steps < MaxSteps
  /\ SetFs(cleanupEmptyDirectories(FsState))
  /\ last' = [op |-> "cleanupEmptyDirectories",
              hadServiceDirs |-> SubDirs(FsState, BaseDir), hadDirs |-> dirs]
  /\ steps' = steps + 1
  /\ UNCHANGED <<treeVars, sourcemap, config, pack, watcher, hung>>

NextWriter ==
  \/ CleanupEmptyDirectories
  \/ \E node \in WriterNodes : WriteScript(node)
  \/ \E nodeSeq \in WriterTrees : WriteTree(nodeSeq)
  \/ \E g \in Guids : DeleteScript(g)
  \/ \E filePath \in KnownFilePaths : DeleteFilePath(filePath)

SpecWriter == Init /\ [][NextWriter]_vars

-----------------------------------------------------------------------------
(* A full snapshot: applyFullSnapshot, then writeTree, then generate *)

\* the number of full snapshots explored in a row
MaxSnapshots == 2

\* Array.from(nodes.values()) as the writer sees the nodes
TreeNodeSeq(T) ==
  [i \in 1..Len(T.nodeOrder) |->
     LET g == T.nodeOrder[i] IN
     [guid |-> g, className |-> T.nodes[g].className, name |-> T.nodes[g].name,
      path |-> T.nodes[g].path, source |-> T.nodes[g].source]]

fullSnapshot(T, F, instances) ==
  LET T1 == applyFullSnapshot(T, instances)
      F1 == writeTree(F, TreeNodeSeq(T1))
  IN [tree |-> T1, fs |-> F1, sourcemap |-> generate(T1, F1.fileMappings)]

FullSnapshot(instances) ==
  /\ steps < MaxSnapshots
  /\ LET r == fullSnapshot(TreeState, FsState, instances) IN
       /\ SetTree(r.tree)
       /\ SetFs(r.fs)
       /\ sourcemap' = r.sourcemap
  /\ last' = [op |-> "fullSnapshot", instances |-> instances]
  /\ steps' = steps + 1
  /\ UNCHANGED <<config, pack, watcher, hung>>

NextSnapshots == \E instances \in Snapshots : FullSnapshot(instances)

SpecSnapshots == Init /\ [][NextSnapshots]_vars

-----------------------------------------------------------------------------
(* Tree invariants *)

Returned == ~hung

NonRoot == DOMAIN nodes \ {RootGuid}

ParentsOf(g) == {p \in DOMAIN nodes : g \in nodes[p].children}

\* every entry of a children map is in the node table and points back
ChildrenPointBack ==
  \A p \in DOMAIN nodes : \A c \in nodes[p].children :
     c \in DOMAIN nodes /\ nodes[c].parent = p

\* every node other than the root has a parent in the table that lists it
ParentListsNode ==
  \A n \in NonRoot :
     /\ nodes[n].parent # Undef
     /\ nodes[n].parent \in DOMAIN nodes
     /\ n \in nodes[nodes[n].parent].children

C2_PathIsParentPathPlusName ==
  Returned =>
    \A n \in NonRoot :
       (nodes[n].parent # Undef /\ nodes[n].parent \in DOMAIN nodes) =>
          nodes[n].path = Append(nodes[nodes[n].parent].path, nodes[n].name)

C4_PathIndexExact ==
  Returned =>
    /\ \A k \in DOMAIN pathIndex :
         /\ pathIndex[k] # {}
         /\ pathIndex[k] = {g \in DOMAIN nodes : pathKey(nodes[g].path) = k}
    /\ \A g \in DOMAIN nodes : pathKey(nodes[g].path) \in DOMAIN pathIndex

\* the instances a snapshot of the tree consists of
InstanceOf(T, g) ==
  [guid |-> g, className |-> T.nodes[g].className, name |-> T.nodes[g].name,
   path |-> T.nodes[g].path, parentGuid |-> T.nodes[g].parentGuid,
   source |-> T.nodes[g].source]
InstancesOf(T) ==
  LET order == SelectSeq(T.nodeOrder, LAMBDA g : g # RootGuid)
  IN [i \in 1..Len(order) |-> InstanceOf(T, order[i])]

\* node set, parent links, children maps, paths and sources agree
SameTree(T, U) ==
  /\ DOMAIN T.nodes = DOMAIN U.nodes
  /\ \A g \in DOMAIN T.nodes :
       /\ T.nodes[g].parent = U.nodes[g].parent
       /\ T.nodes[g].children = U.nodes[g].children
       /\ T.nodes[g].path = U.nodes[g].path
       /\ T.nodes[g].source = U.nodes[g].source

\* C5: the tree a sequence of updateInstance / deleteInstance events leaves
\* equals the tree applyFullSnapshot builds from the final set of instances.
C5_EventsEqualSnapshot ==
  Returned => SameTree(TreeState, applyFullSnapshot(EmptyTree, InstancesOf(TreeState)))

-----------------------------------------------------------------------------
(* Full snapshots *)

SnapshotAgain == fullSnapshot(TreeState, FsState, last.instances)

\* C6: applying the full snapshot that was just applied once more
\* (applyFullSnapshot, writeTree, generate) leaves the tree, the guid-to-file
\* mappings and the sourcemap as they are.
C6_SnapshotTwice ==
  last.op = "fullSnapshot" =>
    /\ SnapshotAgain.tree = TreeState
    /\ SnapshotAgain.fs.fileMappings = fileMappings
    /\ SnapshotAgain.fs.mappingOrder = mappingOrder
    /\ SnapshotAgain.sourcemap = sourcemap

\* a second snapshot was applied over the files of a different first one, and
\* two of its scripts have the same path
C6_Witness_SecondSnapshot ==
  /\ last.op = "fullSnapshot"
  /\ steps = 2
  /\ \E a, b \in NonRoot : a # b /\ nodes[a].path = nodes[b].path
  /\ \E f \in DOMAIN files :
       \A g \in DOMAIN fileMappings : fileMappings[g].filePath # f
  /\ sourcemap.children # <<>>

-----------------------------------------------------------------------------
(* File writer invariants *)

SourceOfGuid(g) == <<"s", g[1], g[Len(g)]>>

\* C7: no two guids are mapped to the same file path, and the file a guid is
\* mapped to holds the source of that guid.
C7_NoSharedFilePath ==
  /\ \A a, b \in DOMAIN fileMappings :
       a # b => fileMappings[a].filePath # fileMappings[b].filePath
  /\ \A g \in DOMAIN fileMappings :
       fileMappings[g].filePath \in DOMAIN files =>
          files[fileMappings[g].filePath] = SourceOfGuid(g)

\* C8: right after writeScript of a script node that carries a source (the
\* empty string included) the guid has one mapping, the mapped file exists and
\* holds the source.
C8_WrittenScriptIsMapped ==
  (/\ last.op = "writeScript"
   /\ isScriptNode(last.node.className)
   /\ last.node.source # Undef) =>
     /\ last.node.guid \in DOMAIN fileMappings
     /\ Cardinality({k \in 1..Len(mappingOrder) : mappingOrder[k] = last.node.guid}) = 1
     /\ fileMappings[last.node.guid].filePath \in DOMAIN files
     /\ files[fileMappings[last.node.guid].filePath] = last.node.source

WroteScript == last.op = "writeScript" /\ last.ret # Null

NamedAfterParent(node) ==
  Len(node.path) >= 2 /\ node.name = node.path[Len(node.path) - 1]

SanitizedDir(path) == BaseDir \o [i \in 1..Len(path) |-> sanitizeName(path[i])]

PlainName(node) == sanitizeName(node.name) \o Ext
InitName == <<"i", "n", "i", "t">> \o Ext
SuffixedName(node) ==
  sanitizeName(node.name) \o <<"_", "_">> \o SubSeq(node.guid, 1, GuidPrefixLen) \o Ext

\* C9: a script whose name differs from the name of its parent is written to
\* <sanitized name><ext> (suffixed on a collision) directly in the directory of
\* its parent chain, and a first write creates no other directory.
C9_FileInParentDirectory ==
  (WroteScript /\ ~NamedAfterParent(last.node)) =>
     /\ dirname(last.ret) = SanitizedDir(Front(last.node.path))
     /\ Last(last.ret) \in {PlainName(last.node), SuffixedName(last.node)}
     /\ steps = 1 =>
          dirs = {SubSeq(dirname(last.ret), 1, n) :
                    n \in Len(BaseDir)..Len(dirname(last.ret))}

\* C10: the file is named init<ext> exactly when the name of the node equals
\* the segment before the last of its path; any other script file is named
\* <sanitized name><ext> (suffixed on a collision).
C10_InitExactlyForParentName ==
  WroteScript =>
     /\ Last(last.ret) = InitName => NamedAfterParent(last.node)
     /\ NamedAfterParent(last.node) =>
          Last(last.ret) \in {InitName, SuffixedName(last.node)}
     /\ ~NamedAfterParent(last.node) =>
          Last(last.ret) \in {PlainName(last.node), SuffixedName(last.node)}

-----------------------------------------------------------------------------
(* The file writer under a loaded configuration *)

\* the number of writes explored under each configuration
MaxConfigWrites == 2

ScriptClasses == {"Script", "LocalScript", "ModuleScript"}

ConfigNodes ==
  {[guid |-> Guid(i), className |-> cls, name |-> Last(p), path |-> p,
    source |-> SourceOf(i)] : i \in 1..MaxGuid, cls \in ScriptClasses, p \in Paths}

InitConfig ==
  /\ nodes = <<>>
  /\ nodeOrder = <<>>
  /\ pathIndex = <<>>
  /\ root = Null
  /\ fileMappings = <<>>
  /\ mappingOrder = <<>>
  /\ files = <<>>
  /\ dirs = {BaseDir}
  /\ sourcemap = Null
  /\ config \in Configs
  /\ pack = PackIdle
  /\ watcher = WatcherIdle
  /\ hung = FALSE
  /\ steps = 0
  /\ last = [op |-> "init"]

WriteConfigured(node) ==
  /\ steps < MaxConfigWrites
  /\ WriteScript(node)

NextConfig == \E node \in ConfigNodes : WriteConfigured(node)

SpecConfig == InitConfig /\ [][NextConfig]_vars

ModuleSuffix == <<".", "m", "o", "d", "u", "l", "e">>

\* the file name ends in .module<ext>
HasModuleSuffix(fileName) ==
  /\ Len(fileName) >= Len(ModuleSuffix) + Len(Ext)
  /\ SubSeq(fileName, Len(fileName) - Len(Ext) - Len(ModuleSuffix) + 1,
            Len(fileName) - Len(Ext)) = ModuleSuffix
  /\ SubSeq(fileName, Len(fileName) - Len(Ext) + 1, Len(fileName)) = Ext

\* C11: with suffixModuleScripts on, the file of every ModuleScript has
\* .module before the extension; with it off no file has; files of Script and
\* LocalScript nodes never have.
C11_ModuleSuffix ==
  WroteScript =>
    /\ (config.suffixModuleScripts /\ last.node.className = "ModuleScript")
         => HasModuleSuffix(Last(last.ret))
    /\ ~config.suffixModuleScripts => ~HasModuleSuffix(Last(last.ret))
    /\ last.node.className \in {"Script", "LocalScript"}
         => ~HasModuleSuffix(Last(last.ret))

-----------------------------------------------------------------------------
(* Collisions, renames and deletions of script files *)

AttemptedWrite ==
  /\ last.op = "writeScript"
  /\ isScriptNode(last.node.className)
  /\ Truthy(last.node.source)

\* the path derived for the node was mapped to another guid
Collided == AttemptedWrite /\ last.collision \notin {Undef, last.node.guid}

\* the file name without its extension
Stem(fileName) == SubSeq(fileName, 1, Len(fileName) - Len(Ext))

\* writing the node again, the other mappings unchanged, gives the same path,
\* and the path differs from the one of the guid collided with
StableAndDistinct ==
  /\ AttemptedWrite => getFilePath(FsState, last.node) = last.target
  /\ Collided => fileMappings[last.collision].filePath # last.target

Moved == AttemptedWrite /\ last.hadMapping /\ last.oldPath # last.target

\* the directories from the one of the file up to, not including, the base
DirsAbove(filePath) ==
  {SubSeq(filePath, 1, n) : n \in (Len(BaseDir) + 1)..(Len(filePath) - 1)}

\* C13: after writeScript moved a script, the old file is gone, the new file
\* holds the source, the guid is mapped to the new path, no empty directory is
\* left between the old file and the base directory, and the base is kept.
C13_MoveReplacesFile ==
  Moved =>
    /\ last.oldPath \notin DOMAIN files
    /\ last.target \in DOMAIN files
    /\ files[last.target] = last.node.source
    /\ last.node.guid \in DOMAIN fileMappings
    /\ fileMappings[last.node.guid].filePath = last.target
    /\ \A d \in DirsAbove(last.oldPath) : d \in dirs => Entries(FsState, d) # {}
    /\ BaseDir \in dirs

\* C14: after deleteScript of a mapped guid its file is gone, its mapping is
\* dropped and no empty directory below a service directory is left above the
\* file; removing empty directories keeps the service directories.
C14_DeletePrunesIntermediate ==
  /\ (last.op = "deleteScript" /\ last.hadMapping) =>
       /\ last.oldPath \notin DOMAIN files
       /\ last.guid \notin DOMAIN fileMappings
       /\ \A d \in DirsAbove(last.oldPath) :
            (Len(d) > Len(BaseDir) + 1 /\ d \in dirs) => Entries(FsState, d) # {}
  /\ last.op = "cleanupEmptyDirectories" => last.hadServiceDirs \subseteq dirs

-----------------------------------------------------------------------------
(* The daemon in its Live state: each event of the editor is applied to the *)
(* tree and mirrored to the disk and to sourcemap.json as the dispatch      *)
(* rules say                                                                *)

\* the number of events explored after the snapshot that starts Live
MaxLive == 2

LiveState == [tree |-> TreeState, fs |-> FsState, file |-> sourcemap]

\* the node of the tree as the file writer reads it
WriterNode(T, g) ==
  [guid |-> g, className |-> T.nodes[g].className, name |-> T.nodes[g].name,
   path |-> T.nodes[g].path, source |-> T.nodes[g].source]

RECURSIVE deleteScripts(_, _)
deleteScripts(F, guidSeq) ==
  IF Len(guidSeq) = 0 THEN F
  ELSE deleteScripts(deleteScript(F, Head(guidSeq)), Tail(guidSeq))

\* Priming -> Live: the snapshot is applied, all scripts are written and the
\* sourcemap is regenerated
primeSnapshot(S, instances) ==
  LET r == fullSnapshot(S.tree, S.fs, instances)
  IN [tree |-> r.tree, fs |-> r.fs, file |-> r.sourcemap, hung |-> FALSE]

\* instanceUpdated: updateInstance, writeScript, then upsertSubtree with
\* isNew for a new node and with oldPath = prevPath for one that was renamed
\* or moved; a message that changes the source only leaves the sourcemap
instanceUpdated(S, inst) ==
  LET r == updateInstance(S.tree, inst)
      g == inst.guid
      F1 == writeScript(S.fs, WriterNode(r.tree, g)).fs
      structural == \/ r.result.pathChanged \/ r.result.nameChanged
                    \/ r.result.parentChanged
  IN IF r.hung THEN [tree |-> r.tree, fs |-> S.fs, file |-> S.file, hung |-> TRUE]
     ELSE [tree |-> r.tree, fs |-> F1, hung |-> FALSE,
           file |-> IF r.result.isNew
                    THEN upsertSubtree(S.file, r.tree, F1.fileMappings, g,
                                       <<>>, TRUE)
                    ELSE IF structural
                    THEN upsertSubtree(S.file, r.tree, F1.fileMappings, g,
                                       r.result.prevPath, FALSE)
                    ELSE S.file]

\* instanceDeleted: deleteInstance, deleteScript for every node of the removed
\* subtree, then prunePath at the path of the removed node, by class and guid
instanceDeleted(S, guid) ==
  IF ~Has(S.tree, guid) THEN [tree |-> S.tree, fs |-> S.fs, file |-> S.file,
                              hung |-> FALSE]
  ELSE LET removed == S.tree.nodes[guid]
           T1 == deleteInstance(S.tree, guid)
           F1 == deleteScripts(S.fs, SetToSeq(Subtree(S.tree, guid)))
       IN [tree |-> T1, fs |-> F1, hung |-> FALSE,
           file |-> prunePath(S.file, removed.path, T1, F1.fileMappings,
                              removed.className, guid).file]

SetLive(S) ==
  /\ SetTree(S.tree)
  /\ SetFs(S.fs)
  /\ sourcemap' = S.file
  /\ hung' = S.hung

InitLive ==
  /\ nodes = <<>>
  /\ nodeOrder = <<>>
  /\ pathIndex = <<>>
  /\ root = Null
  /\ fileMappings = <<>>
  /\ mappingOrder = <<>>
  /\ files = <<>>
  /\ dirs = {BaseDir}
  /\ sourcemap = NoFile
  /\ config = defaultConfig
  /\ pack = PackIdle
  /\ watcher = WatcherIdle
  /\ hung = FALSE
  /\ steps = 0
  /\ last = [op |-> "init"]

\* the editor sends what its own tree holds: an instance below a service lies
\* under an instance that has the parent path and is not one of its own
\* descendants, and a parentGuid names such an instance
Mirrors(inst) ==
  /\ WellFormed(inst)
  /\ Len(inst.path) > 1 =>
       /\ inst.parentGuid # Null
       /\ \E p \in DOMAIN nodes :
            /\ nodes[p].path = Front(inst.path)
            /\ inst.guid \in DOMAIN nodes => p \notin Subtree(TreeState, inst.guid)
            /\ inst.parentGuid \in {Undef, p}

PrimeSnapshot(instances) ==
  /\ last.op = "init"
  /\ SetLive(primeSnapshot(LiveState, instances))
  /\ last' = [op |-> "fullSnapshot", instances |-> instances]
  /\ UNCHANGED <<config, pack, watcher, steps>>

InstanceUpdated(inst) ==
  /\ ~hung
  /\ last.op # "init"
  /\ steps < MaxLive
  /\ Mirrors(inst)
  /\ SetLive(instanceUpdated(LiveState, inst))
  /\ last' = [op |-> "instanceUpdated", inst |-> inst,
              result |-> updateInstance(TreeState, inst).result,
              before |-> sourcemap]
  /\ steps' = steps + 1
  /\ UNCHANGED <<config, pack, watcher>>

InstanceDeleted(guid) ==
  /\ ~hung
  /\ last.op # "init"
  /\ steps < MaxLive
  /\ guid \in DOMAIN nodes
  /\ SetLive(instanceDeleted(LiveState, guid))
  /\ last' = [op |-> "instanceDeleted", guid |-> guid, before |-> sourcemap]
  /\ steps' = steps + 1
  /\ UNCHANGED <<config, pack, watcher>>

\* sourcemap.json is a file of the project: another program leaves it with a
\* content that does not parse
SourcemapCorrupted ==
  /\ ~hung
  /\ IsRoot(sourcemap)
  /\ steps < MaxLive
  /\ sourcemap' = BadFile
  /\ last' = [op |-> "corrupted"]
  /\ UNCHANGED <<treeVars, fsVars, config, pack, watcher, hung, steps>>

NextLive ==
  \/ \E instances \in Snapshots : PrimeSnapshot(instances)
  \/ \E inst \in TreeInsts : InstanceUpdated(inst)
  \/ \E g \in Guids : InstanceDeleted(g)
  \/ SourcemapCorrupted

SpecLive == InitLive /\ [][NextLive]_vars


-----------------------------------------------------------------------------
(* Renames, moves, creations and deletions mirrored to the sourcemap *)

\* the entries of a sourcemap: each node with the guids of the entries above
RECURSIVE EntriesBelow(_, _)
EntriesBelow(children, trail) ==
  UNION {{[name |-> children[i].name, className |-> children[i].className,
           guid |-> children[i].guid, filePaths |-> children[i].filePaths,
           under |-> trail]}
           \cup EntriesBelow(children[i].children,
                             Append(trail, children[i].guid)) :
         i \in 1..Len(children)}
SourcemapEntries(file) == EntriesBelow(file.children, <<>>)

\* the message that renames node g and the one that gives it its name back
RenameOf(g, name) ==
  Instance(g, nodes[g].className, Append(Front(nodes[g].path), name), Undef,
           Undef)
NamedBack(g) == Instance(g, nodes[g].className, nodes[g].path, Undef, Undef)
RenamedTwice(g, name) ==
  instanceUpdated(instanceUpdated(LiveState, RenameOf(g, name)), NamedBack(g))

Renamable(g, name) ==
  /\ isScriptNode(nodes[g].className)
  /\ Len(nodes[g].path) > 0
  /\ nodes[g].name # name

\* C15: renaming a script node and renaming it back leaves the files on disk,
\* the file mappings and the set of sourcemap entries as they were before the
\* first rename.
C15_RenameRoundTrip ==
  (~hung /\ IsRoot(sourcemap)) =>
     \A g \in DOMAIN nodes : \A name \in Names :
        Renamable(g, name) =>
           /\ ~RenamedTwice(g, name).hung
           /\ RenamedTwice(g, name).fs.files = files
           /\ RenamedTwice(g, name).fs.fileMappings = fileMappings
           /\ SourcemapEntries(RenamedTwice(g, name).file)
                = SourcemapEntries(sourcemap)


\* how many entries at or below the children carry the guid
RECURSIVE GuidCount(_, _)
GuidCount(children, g) ==
  IF Len(children) = 0 THEN 0
  ELSE (IF Head(children).guid = g THEN 1 ELSE 0)
         + GuidCount(Head(children).children, g)
         + GuidCount(Tail(children), g)

\* C16: after any sequence of create, rename, move and delete events every
\* guid occurs at most once in the sourcemap.
C16_GuidAtMostOnce ==
  IsRoot(sourcemap) => \A g \in Guids : GuidCount(sourcemap.children, g) <= 1


\* how many entries the children hold, at any depth
RECURSIVE EntryCount(_)
EntryCount(children) ==
  IF Len(children) = 0 THEN 0
  ELSE 1 + EntryCount(Head(children).children) + EntryCount(Tail(children))

\* upsertSubtree ran with isNew = true on a sourcemap that parsed and did not
\* hold the guid
InsertedNew ==
  /\ last.op = "instanceUpdated"
  /\ ~hung
  /\ last.result.isNew
  /\ IsRoot(last.before)
  /\ GuidCount(last.before.children, last.inst.guid) = 0

\* every entry the sourcemap held is still there, under the same entries, and
\* the new guid has one entry
KeepsEntries ==
  /\ SourcemapEntries(last.before) \subseteq SourcemapEntries(sourcemap)
  /\ GuidCount(sourcemap.children, last.inst.guid) = 1
  /\ \A g \in Guids \ {last.inst.guid} :
       GuidCount(sourcemap.children, g) = GuidCount(last.before.children, g)

\* C17: upsertSubtree with isNew = true for a guid the sourcemap does not hold
\* adds exactly one entry and replaces or removes no existing entry, a sibling
\* of the same name and class included.
C17_NewAddsOneEntry ==
  InsertedNew =>
    /\ EntryCount(sourcemap.children) = EntryCount(last.before.children) + 1
    /\ KeepsEntries


\* upsertSubtree ran on a sourcemap that parsed
Upserted ==
  /\ last.op = "instanceUpdated"
  /\ ~hung
  /\ IsRoot(last.before)
  /\ \/ last.result.isNew \/ last.result.pathChanged
     \/ last.result.nameChanged \/ last.result.parentChanged

\* the guid has an entry directly below the entry of the parent, at the top
\* for a child of the root
EntryUnder(g, parent) ==
  \E e \in SourcemapEntries(sourcemap) :
     /\ e.guid = g
     /\ IF parent = RootGuid THEN e.under = <<>>
        ELSE e.under # <<>> /\ Last(e.under) = parent

\* the node has a parent in the table and lies at the path of the parent
\* followed by its own name
AttachedAtPath(g) ==
  /\ nodes[g].parent # Undef
  /\ nodes[g].parent \in DOMAIN nodes
  /\ nodes[g].path = Append(nodes[nodes[g].parent].path, nodes[g].name)

\* C18: upsertSubtree puts the entry of a node below the entry that carries
\* the guid of the node's parent in the tree, also when other nodes share the
\* path of the parent.
C18_InsertedUnderParent ==
  (Upserted /\ AttachedAtPath(last.inst.guid)) =>
     EntryUnder(last.inst.guid, nodes[last.inst.guid].parent)

\* the sourcemap could not be parsed when upsertSubtree or prunePath ran
RanOnBadFile ==
  /\ ~hung
  /\ last.op \in {"instanceUpdated", "instanceDeleted"}
  /\ last.before = BadFile
  /\ last.op = "instanceUpdated" =>
       \/ last.result.isNew \/ last.result.pathChanged
       \/ last.result.nameChanged \/ last.result.parentChanged

\* C19: when sourcemap.json cannot be parsed, upsertSubtree and prunePath
\* leave the file equal to generate(allNodes, mappings).
C19_BadFileRegenerated ==
  RanOnBadFile => sourcemap = generate(TreeState, fileMappings)


-----------------------------------------------------------------------------
(* Parents resolved by path *)

\* updateInstance called reparentNode, which had no parent by guid and looked
\* the parent path up
LookedUpByPath ==
  /\ last.op = "updateInstance"
  /\ ~hung
  /\ \/ last.result.isNew \/ last.result.pathChanged
     \/ last.result.nameChanged \/ last.result.parentChanged
  /\ Len(last.path) > 1
  /\ ~(Truthy(last.parentArg) /\ last.parentArg \in DOMAIN nodes)

\* the nodes that carry the parent path of the node
Candidates == {n \in DOMAIN nodes \ {last.guid} : nodes[n].path = Front(last.path)}

\* C20: when the parent is resolved by path and two or more nodes share the
\* parent path, the node is created or updated but is a child of no node.
C20_AmbiguousParentUnattached ==
  (LookedUpByPath /\ Cardinality(Candidates) >= 2) =>
     /\ last.guid \in DOMAIN nodes
     /\ nodes[last.guid].path = last.path
     /\ \A p \in DOMAIN nodes : last.guid \notin nodes[p].children

\* a node was sent below two same-name siblings without a parentGuid
C20_Witness_TwoCandidates ==
  /\ LookedUpByPath
  /\ Cardinality(Candidates) >= 2
  /\ last.parentArg \in {Undef, Null}
  /\ \A p \in DOMAIN nodes : last.guid \notin nodes[p].children

-----------------------------------------------------------------------------
(* The pack command: PackCommand.run, its wait for the snapshot, and the    *)
(* build command reading the packed sourcemap back                          *)

\* connections, late snapshots and other messages explored per run
MaxLate == 2

PropertyObjects == {Undef, <<>>, <<"k", "v">>}

PackInstance(g, cls, path, hint, props, attrs) ==
  [guid |-> g, className |-> cls, name |-> Last(path), path |-> path,
   parentGuid |-> hint, properties |-> props, attributes |-> attrs]

\* a snapshot of one instance: a service names no parent, an instance below
\* a service names none or one that the snapshot does not hold
PackSingles ==
  {PackInstance(Guid(1), cls, p, h, props, attrs) :
     cls \in {"Folder", "ModuleScript"}, p \in Paths,
     h \in {Undef, Guid(3)}, props \in PropertyObjects,
     attrs \in {Undef, <<"k", "v">>}}

\* a service with properties, and a script that lies anywhere
PackServices ==
  {PackInstance(Guid(1), "Folder", p, Undef, props, Undef) :
     p \in PathsOfLen(1), props \in {Undef, <<"k", "v">>}}
PackScripts ==
  {PackInstance(Guid(2), "ModuleScript", p, h, props, attrs) :
     p \in Paths, h \in {Undef, Guid(1), Guid(3)},
     props \in PropertyObjects, attrs \in {Undef}}

\* the parentGuid of an instance, when sent, is the guid of the instance at
\* the parent path, which the snapshot may leave out
PackHintsFit(snapshot) ==
  \A i \in DOMAIN snapshot :
     LET inst == snapshot[i]
         above == {j \in DOMAIN snapshot : snapshot[j].path = Front(inst.path)}
     IN /\ Len(inst.path) = 1 => inst.parentGuid = Undef
        /\ \A j \in DOMAIN snapshot :
              inst.parentGuid = snapshot[j].guid => j \in above
        /\ (inst.parentGuid = Guid(3) => above = {})

\* a new script that has the name of a synced one, and the synced one under
\* that name or renamed
PackTwins ==
  {<<PackInstance(Guid(1), "ModuleScript", <<NameList[1]>>, Undef, Undef, Undef),
     PackInstance(Guid(2), "ModuleScript", p, Undef, Undef, Undef)>> :
     p \in PathsOfLen(1)}

PackSnapshots ==
  {s \in {<<inst>> : inst \in PackSingles}
           \cup PackTwins
           \cup {<<a, b>> : a \in PackServices, b \in PackScripts}
           \cup {<<b, a>> : a \in PackServices,
                             b \in {c \in PackScripts : Len(c.path) = 1}} :
     PackHintsFit(s)}

\* the project the command runs in: never synced, a sourcemap that does not
\* parse, a synced script, and a synced script of a sourcemap without guids
NewFs == [fileMappings |-> <<>>, mappingOrder |-> <<>>, files |-> <<>>,
          dirs |-> {BaseDir}]
SyncedFs == writeScript(NewFs, ScriptNode(2, <<NameList[1]>>, SourceOf(2))).fs
SyncedSourcemap(guid) ==
  [name |-> <<"G", "a", "m", "e">>, className |-> "DataModel",
   children |-> <<[name |-> NameList[1], className |-> "ModuleScript",
                   guid |-> guid,
                   filePaths |-> <<relativePath(
                                     SyncedFs.fileMappings[Guid(2)].filePath)>>,
                   children |-> <<>>]>>]
PackProjects ==
  {[fs |-> NewFs, file |-> NoFile], [fs |-> NewFs, file |-> BadFile],
   [fs |-> SyncedFs, file |-> SyncedSourcemap(Guid(2))],
   [fs |-> SyncedFs, file |-> SyncedSourcemap(Undef)]}

NotSettled == [kind |-> "none"]
SettledNull == [kind |-> "null"]
SettledWith(data) == [kind |-> "data", data |-> data]

\* finalize of requestSnapshot without its `resolved' check
finalize_NoGuard(P, result) ==
  [P EXCEPT !.resolved = TRUE,
            !.timer = IF @ = "armed" THEN "cleared" ELSE @,
            !.closeTimer = "armed",
            !.result = result,
            !.resolves = @ + 1]

\* finalize of requestSnapshot
finalize(P, result) ==
  IF P.resolved THEN P
  ELSE [P EXCEPT !.resolved = TRUE,
                 !.timer = IF @ = "armed" THEN "cleared" ELSE @,
                 !.closeTimer = "armed",
                 !.result = result,
                 !.resolves = @ + 1]

\* run() after the await, each time the promise is resolved, and the entry
\* point of the command line after run(): the sourcemap file and the command.
\* The promise of run() is fulfilled on both branches (nothing is thrown),
\* and the entry point exits with code 0 after it.
runAfterSnapshot(P, file) ==
  LET returned == [P EXCEPT !.pc = "returned",
                            !.outcome = "fulfilled",
                            !.exit = IF P.caller = "cli" THEN 0 ELSE @]
  IN IF P.result.kind # "data"
     THEN [pack |-> [returned EXCEPT !.errors = @ + 1], file |-> file]
     ELSE [pack |-> [returned EXCEPT !.writes = @ + 1],
           file |-> packIntoSourcemap(
                      P.result.data,
                      regenerateSourcemap(P.result.data, file),
                      P.scriptsOnly)]

\* one resolution of the promise and the continuation of run() it wakes
Resolve(P) ==
  IF P.resolves > pack.resolves
  THEN LET r == runAfterSnapshot(P, sourcemap)
       IN pack' = r.pack /\ sourcemap' = r.file
  ELSE pack' = P /\ sourcemap' = sourcemap

InitPack ==
  /\ nodes = <<>>
  /\ nodeOrder = <<>>
  /\ pathIndex = <<>>
  /\ root = Null
  /\ \E project \in PackProjects :
        /\ fileMappings = project.fs.fileMappings
        /\ mappingOrder = project.fs.mappingOrder
        /\ files = project.fs.files
        /\ dirs = project.fs.dirs
        /\ sourcemap = project.file
  /\ config = defaultConfig
  /\ pack = PackIdle
  /\ watcher = WatcherIdle
  /\ hung = FALSE
  /\ steps = 0
  /\ last = [op |-> "init"]

PackOpen == pack.pc # "idle" /\ pack.closeTimer # "fired" /\ pack.exit = -1

\* run() up to the await: the handlers are registered and the deadline armed
PackRun(caller, scriptsOnly) ==
  /\ pack.pc = "idle"
  /\ pack' = [pc |-> "waiting", caller |-> caller, scriptsOnly |-> scriptsOnly,
              resolved |-> FALSE, timer |-> "armed", closeTimer |-> "none",
              result |-> NotSettled, resolves |-> 0, writes |-> 0, errors |-> 0,
              requested |-> 0, late |-> 0, outcome |-> "pending", exit |-> -1,
              built |-> NotSettled]
  /\ last' = [op |-> "run"]
  /\ UNCHANGED <<treeVars, fsVars, sourcemap, config, watcher, hung, steps>>

\* onConnection
PackConnection ==
  /\ PackOpen
  /\ steps < MaxLate
  /\ pack' = [pack EXCEPT !.requested = @ + 1]
  /\ last' = [op |-> "connection"]
  /\ steps' = steps + 1
  /\ UNCHANGED <<treeVars, fsVars, sourcemap, config, watcher, hung>>

\* onMessage with a fullSnapshot
PackFullSnapshot(data) ==
  /\ PackOpen
  /\ pack.resolved => steps < MaxLate
  /\ Resolve([finalize(pack, SettledWith(data))
                EXCEPT !.late = IF pack.resolved THEN @ + 1 ELSE @])
  /\ last' = [op |-> "message", type |-> "fullSnapshot",
              first |-> ~pack.resolved]
  /\ steps' = IF pack.resolved THEN steps + 1 ELSE steps
  /\ UNCHANGED <<treeVars, fsVars, config, watcher, hung>>

\* onMessage with any other message
PackOtherMessage(type) ==
  /\ PackOpen
  /\ steps < MaxLate
  /\ last' = [op |-> "message", type |-> type, first |-> FALSE]
  /\ steps' = steps + 1
  /\ UNCHANGED <<treeVars, fsVars, sourcemap, config, pack, watcher, hung>>

\* the callback of the 30 s timer
PackTimeout ==
  /\ pack.pc # "idle"
  /\ pack.exit = -1
  /\ pack.timer = "armed"
  /\ Resolve(finalize([pack EXCEPT !.timer = "fired"], SettledNull))
  /\ last' = [op |-> "timeout"]
  /\ UNCHANGED <<treeVars, fsVars, config, watcher, hung, steps>>

\* the callback of the 200 ms timer: ipc.close()
PackClose ==
  /\ pack.pc # "idle"
  /\ pack.exit = -1
  /\ pack.closeTimer = "armed"
  /\ pack' = [pack EXCEPT !.closeTimer = "fired"]
  /\ last' = [op |-> "close"]
  /\ UNCHANGED <<treeVars, fsVars, sourcemap, config, watcher, hung, steps>>

\* BuildCommand with fromSourcemap, run after the pack command
PackBuild ==
  /\ pack.pc = "returned"
  /\ pack.built = NotSettled
  /\ pack' = [pack EXCEPT
                !.built = IF IsRoot(sourcemap)
                          THEN SettledWith(
                                 buildInstancesFromSourcemap(sourcemap, FsState))
                          ELSE SettledNull]
  /\ last' = [op |-> "build"]
  /\ UNCHANGED <<treeVars, fsVars, sourcemap, config, watcher, hung, steps>>

NextPack ==
  \/ \E caller \in {"cli", "library"}, scriptsOnly \in BOOLEAN :
        PackRun(caller, scriptsOnly)
  \/ PackConnection
  \/ \E data \in PackSnapshots : PackFullSnapshot(data)
  \/ \E type \in {"instanceUpdated", "clientDisconnect"} : PackOtherMessage(type)
  \/ PackTimeout
  \/ PackClose
  \/ PackBuild

SpecPack == InitPack /\ [][NextPack]_vars

-----------------------------------------------------------------------------
(* Pack, then build from the sourcemap *)

\* what the round trip compares of an instance
Compared(inst) ==
  [guid |-> inst.guid, className |-> inst.className, name |-> inst.name,
   path |-> inst.path, parentGuid |-> inst.parentGuid,
   properties |-> inst.properties, attributes |-> inst.attributes]

PackedThenBuilt ==
  /\ pack.pc = "returned"
  /\ pack.result.kind = "data"
  /\ pack.built.kind = "data"

PackedInstances ==
  {Compared(pack.result.data[i]) : i \in DOMAIN pack.result.data}
BuiltInstances ==
  {Compared(pack.built.data[i]) : i \in DOMAIN pack.built.data}

\* C21: after a snapshot was packed and buildInstancesFromSourcemap has read
\* the written sourcemap, the instances built are the instances packed: the
\* same guids, and for each guid the same className, name, path, parentGuid,
\* properties and attributes, in a list ordered by path length
C21_PackBuildRoundTrip ==
  PackedThenBuilt =>
     /\ Len(pack.built.data) = Len(pack.result.data)
     /\ BuiltInstances = PackedInstances
     /\ \A i, j \in DOMAIN pack.built.data :
           i < j => Len(pack.built.data[i].path) <= Len(pack.built.data[j].path)

-----------------------------------------------------------------------------
(* The wait for the snapshot *)

Waited == pack.pc # "idle"

\* C22: the wait resolves at most once; a step taken once it has resolved
\* changes neither its result nor the sourcemap, and writes nothing; the
\* first fullSnapshot of an unresolved wait resolves it with data and the
\* sourcemap has then been written exactly once; the deadline of an
\* unresolved wait resolves it with null and nothing is written; a message
\* of another type leaves the wait as it is
C22_Step ==
  /\ pack'.pc # "idle" =>
        /\ pack'.resolves <= 1
        /\ pack'.resolved <=> pack'.resolves = 1
        /\ pack'.writes = IF pack'.result.kind = "data" THEN 1 ELSE 0
  /\ (Waited /\ pack.resolved) =>
        /\ pack'.result = pack.result
        /\ pack'.writes = pack.writes
        /\ sourcemap' = sourcemap
  /\ (Waited /\ ~pack.resolved /\ last'.op = "message"
         /\ last'.type = "fullSnapshot") =>
        /\ pack'.result.kind = "data"
        /\ pack'.writes = 1
        /\ IsRoot(sourcemap')
  /\ (Waited /\ ~pack.resolved /\ last'.op = "timeout") =>
        /\ pack'.result = SettledNull
        /\ pack'.writes = 0
        /\ sourcemap' = sourcemap
  /\ (Waited /\ last'.op = "message" /\ last'.type # "fullSnapshot") =>
        pack' = pack
C22_ResolvesOnce == [][C22_Step]_vars

\* a fullSnapshot arrived after the wait had resolved, and was ignored
C22_Witness_LateSnapshot ==
  /\ Waited
  /\ pack.late > 0
  /\ pack.resolves = 1
  /\ last.op = "message"
  /\ last.type = "fullSnapshot"

\* the wait timed out and run() is over
TimedOut == Waited /\ pack.pc = "returned" /\ pack.result.kind = "null"

\* C23: when the wait timed out, run() ends with an error its caller sees:
\* its promise is rejected, and the command line does not exit with the
\* code of a completed pack
C23_TimeoutSurfaced ==
  TimedOut => /\ pack.outcome = "rejected"
              /\ pack.caller = "cli" => pack.exit # 0

-----------------------------------------------------------------------------
(* A write that fails inside writeScript *)

\* the step was a writeScript whose writeFileSync threw
WriteFailedStep ==
  /\ last'.op = "writeScript"
  /\ isScriptNode(last'.node.className)
  /\ Truthy(last'.node.source)
  /\ last'.ret = Null

\* C24: a writeScript whose file write failed returns null and leaves the
\* mapping table as it was before the call, and the mapping of the guid, if
\* it has one, names a file that exists
C24_Step ==
  WriteFailedStep =>
     /\ fileMappings' = fileMappings
     /\ mappingOrder' = mappingOrder
     /\ last'.node.guid \in DOMAIN fileMappings' =>
           fileMappings'[last'.node.guid].filePath \in DOMAIN files'
C24_FailedWriteKeepsMapping == [][C24_Step]_vars

-----------------------------------------------------------------------------
(* The file watcher (section 4.E of the specification; its code is not part *)
(* of the sources).  Notifications of the file system are handled one at a  *)
(* time, debounced per path, and a settled `change' of a mapped path is     *)
(* sent to the editor as scriptSourceChanged.  A write of the file writer   *)
(* sets the expected-write flag of its path; the flag is dropped by the     *)
(* next `change' of the path or when it expires.  `origin' and `edit' on a  *)
(* notification and on a message record who caused it; `discarded' and      *)
(* `bursts' count the notifications discarded and the edits seen as bursts. *)

\* writes and edits explored
MaxWatch == 3
\* the notifications one user edit raises at most
MaxBurst == 2

WatchedNodes ==
  {ScriptNode(i, p, src) : i \in 1..2, p \in PathsOfLen(1),
                           src \in {<<"s">>, <<"t">>}}
UserBodies == {<<"u">>, <<"v">>}

PendingAt(W, filePath) ==
  {i \in 1..Len(W.raw) : W.raw[i].path = filePath}
TimerAt(W, filePath) == {t \in W.timers : t.path = filePath}

\* nothing of the path is in flight: no expected write, no notification, no
\* debounce timer
Quiet(W, filePath) ==
  /\ filePath \notin W.expected
  /\ PendingAt(W, filePath) = {}
  /\ TimerAt(W, filePath) = {}

\* the watcher's callback for one notification, without the expected-write
\* check
onFsEvent_NoExpected(W, e) ==
  [W EXCEPT !.timers = (@ \ TimerAt(W, e.path)) \cup {e}]

\* the watcher's callback for one notification: a `change' of a path with
\* the expected-write flag is discarded and takes the flag; any other one
\* restarts the debounce timer of the path, the last event winning
onFsEvent(W, e) ==
  IF e.kind = "change" /\ e.path \in W.expected
  THEN [W EXCEPT !.expected = @ \ {e.path}, !.discarded = @ + 1]
  ELSE [W EXCEPT !.timers = (@ \ TimerAt(W, e.path)) \cup {e}]

\* the settled event of a path: what is sent, and the writer's mappings
onSettled(W, F, e) ==
  LET guid == findGuidByFilePath(F, e.path)
      rest == [W EXCEPT !.timers = @ \ {e}]
  IN IF guid = Undef \/ e.kind = "add" THEN [watcher |-> rest, fs |-> F]
     ELSE IF e.kind = "change"
     THEN [watcher |-> [rest EXCEPT !.sent =
                          Append(@, [type |-> "scriptSourceChanged",
                                     guid |-> guid,
                                     source |-> IF e.path \in DOMAIN F.files
                                                THEN F.files[e.path] ELSE Undef,
                                     origin |-> e.origin, edit |-> e.edit])],
           fs |-> F]
     ELSE [watcher |-> [rest EXCEPT !.sent =
                          Append(@, [type |-> "instanceDeleted", guid |-> guid,
                                     source |-> Undef,
                                     origin |-> e.origin, edit |-> e.edit])],
           fs |-> DeleteMapping(F, guid)]

FsEvent(filePath, kind, origin, edit) ==
  [path |-> filePath, kind |-> kind, origin |-> origin, edit |-> edit]

InitWatch ==
  /\ nodes = <<>>
  /\ nodeOrder = <<>>
  /\ pathIndex = <<>>
  /\ root = Null
  /\ fileMappings = <<>>
  /\ mappingOrder = <<>>
  /\ files = <<>>
  /\ dirs = {BaseDir}
  /\ sourcemap = NoFile
  /\ config = defaultConfig
  /\ pack = PackIdle
  /\ watcher = [expected |-> {}, timers |-> {}, sent |-> <<>>, raw |-> <<>>,
                edited |-> <<>>, discarded |-> 0, bursts |-> 0]
  /\ hung = FALSE
  /\ steps = 0
  /\ last = [op |-> "init"]

\* writeScript of the file writer on a path with nothing in flight: the flag
\* of the path is set, and the file system notifies the removal of the old
\* file and the creation or change of the new one
WatchedWrite(node) ==
  /\ steps < MaxWatch
  /\ LET r == writeScript(FsState, node)
         target == getFilePath(FsState, node)
         written == target \in DOMAIN r.fs.files
         gone == DOMAIN files \ DOMAIN r.fs.files
     IN /\ Quiet(watcher, target)
        /\ \A old \in gone : Quiet(watcher, old)
        /\ written \/ gone # {}
        /\ SetFs(r.fs)
        /\ watcher' =
             [watcher EXCEPT
                !.expected = IF written THEN @ \cup {target} ELSE @,
                !.raw = @ \o [i \in 1..Cardinality(gone) |->
                                FsEvent(SetToSeq(gone)[i], "unlink", "writer", 0)]
                          \o (IF written
                              THEN <<FsEvent(target,
                                             IF target \in DOMAIN files
                                             THEN "change" ELSE "add",
                                             "writer", 0)>>
                              ELSE <<>>)]
        /\ last' = [op |-> "write", path |-> target]
  /\ steps' = steps + 1
  /\ UNCHANGED <<treeVars, sourcemap, config, pack, hung>>

\* the user saves a mapped file that has nothing in flight; the save is seen
\* as one notification or as a burst of them
UserEdit(filePath, body, burst) ==
  /\ steps < MaxWatch
  /\ filePath \in DOMAIN files
  /\ findGuidByFilePath(FsState, filePath) # Undef
  /\ Quiet(watcher, filePath)
  /\ files' = [files EXCEPT ![filePath] = body]
  /\ LET edit == Len(watcher.edited) + 1
     IN watcher' =
          [watcher EXCEPT
             !.raw = @ \o [i \in 1..burst |->
                             FsEvent(filePath, "change", "user", edit)],
             !.bursts = IF burst > 1 THEN @ + 1 ELSE @,
             !.edited = Append(@, [path |-> filePath, body |-> body,
                                   guid |-> findGuidByFilePath(FsState,
                                                               filePath)])]
  /\ last' = [op |-> "edit", path |-> filePath]
  /\ steps' = steps + 1
  /\ UNCHANGED <<treeVars, fileMappings, mappingOrder, dirs, sourcemap, config,
                 pack, hung>>

\* the watcher handles the oldest notification of some path
WatcherEvent(i) ==
  /\ i \in 1..Len(watcher.raw)
  /\ \A j \in 1..(i - 1) : watcher.raw[j].path # watcher.raw[i].path
  /\ watcher' = [onFsEvent(watcher, watcher.raw[i])
                   EXCEPT !.raw = RemoveAt(watcher.raw, i)]
  /\ last' = [op |-> "event", path |-> watcher.raw[i].path]
  /\ UNCHANGED <<treeVars, fsVars, sourcemap, config, pack, hung, steps>>

\* the debounce timer of a path fires, no notification of the path pending
\* (a burst falls within the delay)
WatcherSettled(e) ==
  /\ e \in watcher.timers
  /\ PendingAt(watcher, e.path) = {}
  /\ LET r == onSettled(watcher, FsState, e)
     IN watcher' = r.watcher /\ SetFs(r.fs)
  /\ last' = [op |-> "settled", path |-> e.path]
  /\ UNCHANGED <<treeVars, sourcemap, config, pack, hung, steps>>

\* the expected-write flag is short: it expires once the notifications of
\* the write have been handled
ExpectedExpires(filePath) ==
  /\ filePath \in watcher.expected
  /\ PendingAt(watcher, filePath) = {}
  /\ watcher' = [watcher EXCEPT !.expected = @ \ {filePath}]
  /\ last' = [op |-> "expired", path |-> filePath]
  /\ UNCHANGED <<treeVars, fsVars, sourcemap, config, pack, hung, steps>>

NextWatch ==
  \/ \E node \in WatchedNodes : WatchedWrite(node)
  \/ \E filePath \in DOMAIN files, body \in UserBodies, burst \in 1..MaxBurst :
        UserEdit(filePath, body, burst)
  \/ \E i \in 1..Len(watcher.raw) : WatcherEvent(i)
  \/ \E e \in watcher.timers : WatcherSettled(e)
  \/ \E filePath \in watcher.expected : ExpectedExpires(filePath)

SpecWatch == InitWatch /\ [][NextWatch]_vars

\* every path is quiet
WatcherQuiet ==
  /\ watcher.expected = {}
  /\ watcher.raw = <<>>
  /\ watcher.timers = {}

-----------------------------------------------------------------------------
(* Termination of updateInstance and the shape of the tree *)

\* C26: every call of updateInstance returns, and after it no node is
\* reachable from itself through the children maps
C26_TerminatesAcyclic ==
  /\ ~hung
  /\ \A g \in DOMAIN nodes : ~LoopsFrom(TreeState, g)

-----------------------------------------------------------------------------
(* An existing node sent with a new path and no parentGuid *)

\* the node that alone carries the parent path of the message, outside the
\* subtree of the node sent
ParentByPath(inst) ==
  {p \in DOMAIN nodes \ Subtree(TreeState, inst.guid) :
     /\ nodes[p].path = Front(inst.path)
     /\ \A q \in DOMAIN nodes : nodes[q].path = Front(inst.path) => q = p}

\* a message for a node of the tree, without parentGuid, whose parent path
\* is the path of one node that is not the parent of the node
MovesByPath(inst) ==
  /\ ~hung
  /\ inst.guid \in DOMAIN nodes
  /\ inst.parentGuid = Undef
  /\ Len(inst.path) > 1
  /\ nodes[inst.guid].parent # Undef
  /\ ParentByPath(inst) # {}
  /\ nodes[inst.guid].parent \notin ParentByPath(inst)

MovedTo(inst, p) ==
  /\ ~updateInstance(TreeState, inst).hung
  /\ updateInstance(TreeState, inst).tree.nodes[inst.guid].parent = p
  /\ inst.guid \in updateInstance(TreeState, inst).tree.nodes[p].children
  /\ inst.guid \notin
        updateInstance(TreeState, inst).tree.nodes[nodes[inst.guid].parent].children

\* C27: in every state of the tree, updateInstance for such a message makes
\* the node a child of the node at the parent path and removes it from the
\* children of its previous parent
C27_ReparentedByPath ==
  \A inst \in TreeInsts :
     MovesByPath(inst) => \A p \in ParentByPath(inst) : MovedTo(inst, p)

-----------------------------------------------------------------------------
(* Entries of other nodes under upsertSubtree and prunePath *)

\* the nodes that share parent, name and class with the node just updated
\* and had one entry in the sourcemap before the update
TwinSiblings ==
  {t \in DOMAIN nodes \ {last.inst.guid} :
     /\ nodes[t].parent = nodes[last.inst.guid].parent
     /\ nodes[t].name = last.inst.name
     /\ nodes[t].className = last.inst.className
     /\ GuidCount(last.before.children, t) = 1}

\* the last event renamed a node of the tree to the name and class of a
\* sibling
RenamedOntoSibling ==
  /\ last.op = "instanceUpdated"
  /\ ~hung
  /\ ~last.result.isNew
  /\ last.result.nameChanged
  /\ IsRoot(last.before)
  /\ IsRoot(sourcemap)
  /\ TwinSiblings # {}

\* C28: after a node was renamed to the name and class of a sibling, every
\* other node of the tree that had an entry in the sourcemap still has one
C28_RenameKeepsSibling ==
  RenamedOntoSibling =>
     \A h \in DOMAIN nodes \ {last.inst.guid} :
        GuidCount(last.before.children, h) >= 1 =>
           GuidCount(sourcemap.children, h) >= 1

InTrail(trail, g) == \E i \in 1..Len(trail) : trail[i] = g

\* the last event deleted a node and prunePath worked on a sourcemap
PrunedByGuid ==
  /\ last.op = "instanceDeleted"
  /\ ~hung
  /\ IsRoot(last.before)
  /\ IsRoot(sourcemap)

\* C29: prunePath called with the guid of the deleted node removes the entry
\* of no other guid: every entry the sourcemap had that neither carries the
\* guid nor lies below an entry carrying it is still in the sourcemap
C29_PruneKeepsOtherGuids ==
  PrunedByGuid =>
     \A e \in SourcemapEntries(last.before) :
        (e.guid # last.guid /\ ~InTrail(e.under, last.guid)) =>
           GuidCount(sourcemap.children, e.guid) >= 1

-----------------------------------------------------------------------------
(* The incremental sourcemap against generate() *)

\* what is compared of an entry: its guid, the guid of the entry it lies
\* under (Undef below the root) and its file paths
Placed(entries) ==
  {[guid |-> e.guid,
    parent |-> IF Len(e.under) = 0 THEN Undef ELSE Last(e.under),
    filePaths |-> e.filePaths] : e \in entries}

Regenerated == generate(TreeState, fileMappings)

\* an event was mirrored to the sourcemap file
Mirrored ==
  /\ last.op \in {"instanceUpdated", "instanceDeleted"}
  /\ ~hung
  /\ IsRoot(sourcemap)

\* C30: after every live event mirrored by upsertSubtree or prunePath the
\* sourcemap holds an entry for exactly the nodes generate() emits for the
\* tree, each under the same parent and with the same file paths
C30_IncrementalMatchesGenerate ==
  Mirrored =>
     Placed(SourcemapEntries(sourcemap)) = Placed(SourcemapEntries(Regenerated))

-----------------------------------------------------------------------------
(* deleteInstance: effect and frame *)

\* the tree deleteInstance(guid) would leave in the current state
AfterDelete(g) == deleteInstance(TreeState, g)

\* the node and the nodes its children maps lead to
Doomed(g) == Subtree(TreeState, g)

BucketOf(T, key) == IF key \in DOMAIN T.pathIndex THEN T.pathIndex[key] ELSE {}

\* every node outside the subtree is as before, but for the entry of g in
\* the children map of its parent
OthersKept(g) ==
  \A k \in DOMAIN nodes \ Doomed(g) :
     AfterDelete(g).nodes[k] =
        IF k = nodes[g].parent THEN [nodes[k] EXCEPT !.children = @ \ {g}]
        ELSE nodes[k]

\* the index loses the removed guids and nothing else
IndexLost(g) ==
  \A key \in DOMAIN pathIndex \cup DOMAIN AfterDelete(g).pathIndex :
     BucketOf(AfterDelete(g), key) = BucketOf(TreeState, key) \ Doomed(g)

\* C31: deleteInstance(guid) removes from the node table and from the path
\* index exactly the node and its descendants and takes the node out of the
\* children map of its parent; every other node keeps its parent link,
\* children map, path and source; for a guid that is not in the table nothing
\* changes.
C31_DeleteExact ==
  ~hung =>
    \A g \in Guids :
       IF g \notin DOMAIN nodes THEN AfterDelete(g) = TreeState
       ELSE /\ DOMAIN AfterDelete(g).nodes = DOMAIN nodes \ Doomed(g)
            /\ OthersKept(g)
            /\ IndexLost(g)

\* the node table and the children maps alone do change as specified
DeleteTableExact ==
  ~hung =>
    \A g \in Guids :
       IF g \notin DOMAIN nodes THEN AfterDelete(g) = TreeState
       ELSE /\ DOMAIN AfterDelete(g).nodes = DOMAIN nodes \ Doomed(g)
            /\ OthersKept(g)

-----------------------------------------------------------------------------
(* Script sources: updateInstance and updateScriptSource *)

\* a message carries no source, the empty string or a text
MessageSources == {Undef, EmptyString, <<"t">>}

SourceInsts ==
  {inst \in {Instance(g, "ModuleScript", p, h, src) :
               g \in {Guid(1), Guid(2)}, p \in Paths,
               h \in {Undef, Guid(1)}, src \in MessageSources} : WellFormed(inst)}

NextSource ==
  \/ \E inst \in SourceInsts : UpdateInstance(inst)
  \/ \E g \in Guids, src \in {EmptyString, <<"u">>} : UpdateScriptSource(g, src)

SpecSource == Init /\ [][NextSource]_vars

\* one call of updateInstance for a node that was in the table
UpdatedExisting ==
  last'.op = "updateInstance" /\ last'.guid \in DOMAIN nodes /\ ~hung'

C32_Step ==
  /\ UpdatedExisting =>
       nodes'[last'.guid].source =
          IF last'.source = Undef THEN nodes[last'.guid].source ELSE last'.source
  /\ last'.op = "updateScriptSource" =>
       IF last'.guid \notin DOMAIN nodes THEN treeVars' = treeVars
       ELSE /\ nodes' = [nodes EXCEPT ![last'.guid].source = last'.source]
            /\ UNCHANGED <<nodeOrder, pathIndex, root>>

\* C32: updateInstance on an existing node keeps the node's source when the
\* message carries no source and replaces it when the message carries one,
\* the empty string included; updateScriptSource changes the source of the
\* addressed node and nothing else, and changes nothing for an unknown guid.
C32_SourceReplacedOnlyIfCarried == [][C32_Step]_vars

\* an existing node whose source is the empty string went through an update
\* that carried no source and changed its path
C32_Witness_KeptEmpty ==
  /\ last.op = "updateInstance" /\ last.source = Undef /\ ~hung
  /\ ~last.result.isNew /\ last.result.pathChanged
  /\ nodes[last.guid].source = EmptyString

-----------------------------------------------------------------------------
(* applyFullSnapshot over any earlier state *)

MaxPartial == 2

\* a snapshot restricted to scripts and their descendants need not contain
\* the ancestors of an instance, and a parentGuid may name an absent instance
PartialSnapshots ==
  UNION {{S \in {SnapshotOf(ps, hs) : ps \in [1..n -> Paths],
                                      hs \in [1..n -> {Undef, Guid(MaxGuid)}]} :
             \A i \in 1..n : WellFormed(S[i])} : n \in 1..MaxPartial}

ResyncSnapshots == PartialSnapshots \cup SnapshotsOfSize(1) \cup SnapshotsOfSize(2)

NextResync ==
  \/ \E instances \in ResyncSnapshots : ApplyFullSnapshot(instances)
  \/ \E inst \in TreeInsts : UpdateInstance(inst)
  \/ \E g \in Guids : DeleteInstance(g)

SpecResync == Init /\ [][NextResync]_vars

SnapshotGuids(S) == {S[i].guid : i \in DOMAIN S}
Services(S) == {S[i].guid : i \in {j \in DOMAIN S : Len(S[j].path) = 1}}

\* the node table holds the instances of S as S describes them
TableIs(S) ==
  /\ DOMAIN nodes = SnapshotGuids(S) \cup (IF Services(S) # {} THEN {RootGuid} ELSE {})
  /\ \A i \in DOMAIN S :
        /\ nodes[S[i].guid].path = S[i].path
        /\ nodes[S[i].guid].name = S[i].name
        /\ nodes[S[i].guid].source = S[i].source
        /\ nodes[S[i].guid].children \subseteq SnapshotGuids(S)

IndexIs(S) ==
  /\ \A g \in DOMAIN nodes : g \in BucketOf(TreeState, pathKey(nodes[g].path))
  /\ \A key \in DOMAIN pathIndex :
        \A g \in pathIndex[key] : g \in DOMAIN nodes /\ pathKey(nodes[g].path) = key

RootIs(S) ==
  IF Services(S) = {} THEN root = Null
  ELSE /\ root = RootGuid
       /\ nodes[RootGuid].children = Services(S)
       /\ \A g \in Services(S) : nodes[g].parent = RootGuid

\* C33: applyFullSnapshot(S) discards all prior state: afterwards the node
\* table holds exactly the guids of S, plus the synthetic root if and only if
\* S has an instance of path length 1; every instance of path length 1 is a
\* child of that root; no node, index entry or root from before survives.
C33_SnapshotReplacesAll ==
  last.op = "applyFullSnapshot" =>
     TableIs(last.instances) /\ IndexIs(last.instances) /\ RootIs(last.instances)

\* a snapshot of one instance that is no service arrived when the table held
\* a root and a service: neither is left
C33_Witness_RootDiscarded ==
  /\ last.op = "applyFullSnapshot"
  /\ last.prior.root = RootGuid /\ last.prior.size = 2
  /\ Len(last.instances) = 1 /\ Services(last.instances) = {}
  /\ root = Null /\ Cardinality(DOMAIN nodes) = 1

-----------------------------------------------------------------------------
(* generate over arbitrary node graphs *)

\* a node of a graph whose children maps are given as they are, cycles and
\* shared children included
GraphNode(i, service, kids) ==
  [className |-> "ModuleScript", name |-> NameList[1 + (i % NumNames)],
   path |-> IF service THEN <<NameList[1 + (i % NumNames)]>>
            ELSE <<NameList[1], NameList[1 + (i % NumNames)]>>,
   parentGuid |-> Null, source |-> Undef, children |-> kids, parent |-> Undef]

GraphTree(hasRoot, services, kids) ==
  [nodes |-> [g \in Guids \cup (IF hasRoot THEN {RootGuid} ELSE {}) |->
                IF g = RootGuid THEN [RootNode EXCEPT !.children = services]
                ELSE GraphNode(CHOOSE i \in 1..MaxGuid : Guid(i) = g,
                               g \in services, kids[g])],
   nodeOrder |-> (IF hasRoot THEN <<RootGuid>> ELSE <<>>)
                    \o [i \in 1..MaxGuid |-> Guid(i)],
   pathIndex |-> <<>>,
   root |-> IF hasRoot THEN RootGuid ELSE Null]

InitGraph ==
  /\ \E hasRoot \in BOOLEAN, services \in SUBSET Guids,
        kids \in [Guids -> SUBSET Guids] :
        /\ nodes = GraphTree(hasRoot, services, kids).nodes
        /\ nodeOrder = GraphTree(hasRoot, services, kids).nodeOrder
        /\ root = GraphTree(hasRoot, services, kids).root
        /\ last = [op |-> "init", services |-> services]
  /\ pathIndex = <<>>
  /\ fileMappings = <<>>
  /\ mappingOrder = <<>>
  /\ files = <<>>
  /\ dirs = {BaseDir}
  /\ sourcemap = NoFile
  /\ config = defaultConfig
  /\ pack = PackIdle
  /\ watcher = WatcherIdle
  /\ hung = FALSE
  /\ steps = 0

\* generateAndWrite: the sourcemap file is what generate returns
GenerateAndWrite ==
  /\ steps = 0
  /\ sourcemap' = generateAndWrite(TreeState, fileMappings)
  /\ last' = [op |-> "generate", services |-> last.services]
  /\ steps' = 1
  /\ UNCHANGED <<treeVars, fsVars, config, pack, watcher, hung>>

NextGraph == GenerateAndWrite

SpecGraph == InitGraph /\ [][NextGraph]_vars

\* the nodes a walk of the children maps reaches from the services
ReachedFromServices == ReachFrom(TreeState, last.services, last.services)

\* C34: generate returns on any node graph, also when the children maps form
\* a cycle, and its output holds every guid at most once: a node already
\* visited is not emitted again.  (The guids emitted are those the children
\* maps reach from the services.)
C34_GenerateCutsCycles ==
  last.op = "generate" =>
     /\ IsRoot(sourcemap)
     /\ \A g \in Guids :
          GuidCount(sourcemap.children, g) =
             IF g \in ReachedFromServices THEN 1 ELSE 0

\* a graph with a cycle that the services reach, and a node with two parents
C34_Witness_CycleAndShared ==
  /\ last.op = "generate"
  /\ \E g \in ReachedFromServices : LoopsFrom(TreeState, g)
  /\ \E g \in Guids : Cardinality(ParentsOf(g) \cap ReachedFromServices) > 1
  /\ EntryCount(sourcemap.children) = MaxGuid

-----------------------------------------------------------------------------
(* prunePath over sourcemap files.  Each entry of a file carries `id', its   *)
(* position in the file before the call: the code never reads it, it tells  *)
(* the entries apart afterwards.                                            *)

MaxEntries == 3
MaxPruneDepth == 3

\* what an entry of the file says: a folder has no file, a script has one;
\* an entry written without guid (a placeholder, or a file of another tool)
\* has none
EntryAttrs == [name : Names, className : {"Folder", "ModuleScript"}, hasGuid : BOOLEAN]

FileEntry(id, a, kids) ==
  [id |-> id, name |-> a.name, className |-> a.className,
   guid |-> IF a.hasGuid THEN Guid(id) ELSE Undef,
   filePaths |-> IF a.className = "ModuleScript"
                 THEN << <<"s", "y", "n", "c", "/", "f">> >> ELSE <<>>,
   children |-> kids]

\* the forests of at most MaxEntries entries, entries numbered in preorder
FileShapes(a) ==
  IF Len(a) = 0 THEN {<<>>}
  ELSE IF Len(a) = 1 THEN {<<FileEntry(1, a[1], <<>>)>>}
  ELSE IF Len(a) = 2
  THEN {<<FileEntry(1, a[1], <<>>), FileEntry(2, a[2], <<>>)>>,
        <<FileEntry(1, a[1], <<FileEntry(2, a[2], <<>>)>>)>>}
  ELSE {<<FileEntry(1, a[1], <<>>), FileEntry(2, a[2], <<>>),
          FileEntry(3, a[3], <<>>)>>,
        <<FileEntry(1, a[1], <<FileEntry(2, a[2], <<>>),
                               FileEntry(3, a[3], <<>>)>>)>>,
        <<FileEntry(1, a[1], <<FileEntry(2, a[2],
                                 <<FileEntry(3, a[3], <<>>)>>)>>)>>,
        <<FileEntry(1, a[1], <<FileEntry(2, a[2], <<>>)>>),
          FileEntry(3, a[3], <<>>)>>,
        <<FileEntry(1, a[1], <<>>),
          FileEntry(2, a[2], <<FileEntry(3, a[3], <<>>)>>)>>}

SourcemapFiles ==
  {NoFile, BadFile}
    \cup {[EmptyRoot EXCEPT !.children = c] :
            c \in UNION {FileShapes(a) :
                           a \in UNION {[1..n -> EntryAttrs] : n \in 0..MaxEntries}}}

PrunePaths == UNION {PathsOfLen(n) : n \in 1..MaxPruneDepth}

InitPrune ==
  /\ sourcemap \in SourcemapFiles
  /\ nodes = <<>>
  /\ nodeOrder = <<>>
  /\ pathIndex = <<>>
  /\ root = Null
  /\ fileMappings = <<>>
  /\ mappingOrder = <<>>
  /\ files = <<>>
  /\ dirs = {BaseDir}
  /\ config = defaultConfig
  /\ pack = PackIdle
  /\ watcher = WatcherIdle
  /\ hung = FALSE
  /\ steps = 0
  /\ last = [op |-> "init"]

PrunePath(pathSegments, targetClassName, targetGuid) ==
  /\ steps = 0
  /\ sourcemap' = prunePath(sourcemap, pathSegments, TreeState, fileMappings,
                            targetClassName, targetGuid).file
  /\ last' = [op |-> "prunePath", path |-> pathSegments,
              className |-> targetClassName, guid |-> targetGuid,
              ret |-> prunePath(sourcemap, pathSegments, TreeState, fileMappings,
                                targetClassName, targetGuid).ret,
              before |-> sourcemap]
  /\ steps' = 1
  /\ UNCHANGED <<treeVars, fsVars, config, pack, watcher, hung>>

NextPrune ==
  \E pathSegments \in PrunePaths, targetClassName \in {"", "ModuleScript"},
     targetGuid \in {Undef, Guid(2), Guid(3)} :
     PrunePath(pathSegments, targetClassName, targetGuid)

SpecPrune == InitPrune /\ [][NextPrune]_vars

\* the entries of a list of children: each with the id of the entry it lies
\* in (0 for the root), the names above it and the ids of its children in
\* their order
RECURSIVE IdEntries(_, _, _)
IdEntries(children, parent, trail) ==
  UNION {{[id |-> children[i].id, parent |-> parent, trail |-> trail,
           name |-> children[i].name, className |-> children[i].className,
           guid |-> children[i].guid, filePaths |-> children[i].filePaths,
           kids |-> [k \in 1..Len(children[i].children) |->
                       children[i].children[k].id]]}
           \cup IdEntries(children[i].children, children[i].id,
                          Append(trail, children[i].name)) :
         i \in 1..Len(children)}

Before == IdEntries(last.before.children, 0, <<>>)
After == IdEntries(sourcemap.children, 0, <<>>)
TopIds(file) == [k \in 1..Len(file.children) |-> file.children[k].id]

RECURSIVE Below(_, _)
Below(entries, ids) ==
  IF {e.id : e \in {x \in entries : x.parent \in ids}} \subseteq ids THEN ids
  ELSE Below(entries, ids \cup {e.id : e \in {x \in entries : x.parent \in ids}})

\* the entries that go once the ids in `gone' are removed from under the
\* entry `a': a itself when nothing is left in it and it has no file, and
\* then the entry above it likewise
RECURSIVE Collapsed(_, _, _)
Collapsed(entries, gone, a) ==
  IF a = 0 THEN gone
  ELSE LET e == CHOOSE x \in entries : x.id = a IN
       IF {e.kids[k] : k \in 1..Len(e.kids)} \subseteq gone /\ Len(e.filePaths) = 0
       THEN Collapsed(entries, gone \cup {a}, e.parent)
       ELSE gone

\* the entries left when the ids in `gone' are taken out
Survivors(entries, gone) ==
  {[e EXCEPT !.kids = SelectSeq(e.kids, LAMBDA k : k \notin gone)] :
     e \in {x \in entries : x.id \notin gone}}

\* the entries that lie at the path: under entries named as the path says,
\* and carrying its last name or the guid asked for
AtPath(entries) ==
  {e \in entries :
     /\ e.trail = Front(last.path)
     /\ \/ e.name = Last(last.path)
        \/ Truthy(last.guid) /\ e.guid = last.guid}

PrunedFile == last.op = "prunePath" /\ IsRoot(last.before)

RemovedAs(t) ==
  /\ After = Survivors(Before, Collapsed(Before, Below(Before, {t.id}), t.parent))
  /\ TopIds(sourcemap) =
       SelectSeq(TopIds(last.before),
                 LAMBDA k : k \notin Collapsed(Before, Below(Before, {t.id}), t.parent))

Target == {e \in Before : e.id \notin {x.id : x \in After}
                          /\ Len(e.trail) = Len(last.path) - 1}

\* the entries beside t that carry the last name of the path
Namesakes(t) ==
  {e \in Before : e.parent = t.parent /\ e.name = Last(last.path)}

\* C40: when several sibling entries carry the name of the last segment,
\* prunePath removes the one whose guid is targetGuid if there is one,
\* otherwise one whose className is targetClassName, and an entry matched by
\* name alone only when there is neither; one entry, with its subtree, is
\* removed per successful call.
C40_GuidThenClassThenName ==
  (PrunedFile /\ last.ret) =>
     /\ Cardinality(Target) = 1
     /\ \A t \in Target :
          Cardinality(Namesakes(t)) > 1 =>
            IF \E e \in Namesakes(t) : Truthy(last.guid) /\ e.guid = last.guid
            THEN t.guid = last.guid
            ELSE IF \E e \in Namesakes(t) : e.className = last.className
            THEN t.className = last.className
            ELSE t.name = Last(last.path)

-----------------------------------------------------------------------------
(* The sourcemap regenerated by pack *)

\* run() wrote a sourcemap regenerated from the snapshot
PackWritten ==
  /\ pack.pc = "returned"
  /\ pack.result.kind = "data"
  /\ IsRoot(sourcemap)

\* how many entries at or below the children carry the file paths
RECURSIVE FilePathsCount(_, _)
FilePathsCount(children, filePaths) ==
  IF Len(children) = 0 THEN 0
  ELSE (IF Head(children).filePaths = filePaths THEN 1 ELSE 0)
         + FilePathsCount(Head(children).children, filePaths)
         + FilePathsCount(Tail(children), filePaths)

\* the filePaths of the synced project's sourcemap, which holds them once
SyncedFilePaths == SyncedSourcemap(Guid(2)).children[1].filePaths

\* C36: in pack's regeneration no filePaths entry of the existing sourcemap
\* is assigned to two snapshot nodes, neither through a guid match and the
\* (path, className) bucket nor through the bucket alone.
C36_FilePathsAssignedOnce ==
  PackWritten => FilePathsCount(sourcemap.children, SyncedFilePaths) <= 1

\* each entry with the names of the entries from the root down to it
RECURSIVE EntryPaths(_, _)
EntryPaths(children, above) ==
  UNION {{[guid |-> children[i].guid, path |-> Append(above, children[i].name)]}
           \cup EntryPaths(children[i].children, Append(above, children[i].name)) :
         i \in 1..Len(children)}

\* C37: in the sourcemap regenerated by pack every snapshot instance lies at
\* the position its path gives: the names of the entries from the root down
\* to its entry are instance.path, also for an instance without parentGuid
\* or with a parentGuid that the snapshot does not hold.
C37_PlacedAtPath ==
  PackWritten =>
     \A i \in DOMAIN pack.result.data :
        [guid |-> pack.result.data[i].guid, path |-> pack.result.data[i].path]
           \in EntryPaths(sourcemap.children, <<>>)

-----------------------------------------------------------------------------
(* buildInstancesFromSourcemap on the sourcemap the live session maintains *)

BuiltFromSourcemap == buildInstancesFromSourcemap(sourcemap, FsState)

\* one instance per entry, each one with a guid
BuiltOnePerEntry ==
  /\ Len(BuiltFromSourcemap) = EntryCount(sourcemap.children)
  /\ \A i \in DOMAIN BuiltFromSourcemap : Truthy(BuiltFromSourcemap[i].guid)

\* an instance below the top level names the instance built for the entry it
\* lies in, which comes before it
BuiltParentsFirst ==
  \A i \in DOMAIN BuiltFromSourcemap :
     IF Len(BuiltFromSourcemap[i].path) = 1
     THEN BuiltFromSourcemap[i].parentGuid = Undef
     ELSE \E j \in 1..(i - 1) :
             /\ BuiltFromSourcemap[j].guid = BuiltFromSourcemap[i].parentGuid
             /\ BuiltFromSourcemap[j].path = Front(BuiltFromSourcemap[i].path)

BuiltGuidsDistinct ==
  \A i, j \in DOMAIN BuiltFromSourcemap :
     i # j => BuiltFromSourcemap[i].guid # BuiltFromSourcemap[j].guid

\* C38: buildInstancesFromSourcemap emits one instance per sourcemap entry;
\* every instance has a guid, the guids are pairwise distinct, an instance
\* below the top level has the guid of its parent entry's instance as
\* parentGuid, and every parent precedes its children.
C38_BuiltGuidsDistinct ==
  IsRoot(sourcemap) => BuiltOnePerEntry /\ BuiltParentsFirst /\ BuiltGuidsDistinct

\* all of the claim but the distinctness of the guids
BuiltWellFormed ==
  IsRoot(sourcemap) => BuiltOnePerEntry /\ BuiltParentsFirst

-----------------------------------------------------------------------------
(* cleanupEmptyDirectories *)

DiskAfter == [files |-> files', dirs |-> dirs']

HoldsFile(dir) == \E f \in DOMAIN files : IsUnder(f, dir)

C39_Step ==
  last'.op = "cleanupEmptyDirectories" =>
     /\ \A d \in dirs' \ {BaseDir} : Entries(DiskAfter, d) # {}
     /\ BaseDir \in dirs'
     /\ files' = files
     /\ dirs' \subseteq dirs
     /\ \A d \in dirs : HoldsFile(d) => d \in dirs'

\* C39: cleanupEmptyDirectories leaves no empty directory strictly inside
\* the base directory, a directory that is empty once its empty
\* subdirectories are gone included; it never removes the base directory, a
\* file, or a directory that contains a file.
C39_NoEmptyDirectoryLeft == [][C39_Step]_vars

\* a directory that held nothing but an empty directory was removed with it
C39_Witness_NestedRemoved ==
  /\ last.op = "cleanupEmptyDirectories"
  /\ \E d \in last.hadDirs \ dirs : dirname(d) \in last.hadDirs \ (dirs \cup {BaseDir})
====
